---- MODULE Spec2Model ----
(***************************************************************************)
(* A model of syslog-visualizer's ingestion pipeline: the RFC 6587 framing *)
(* codec (internal/framing), the message parser (internal/parser) and the  *)
(* collector (internal/collector).                                         *)
(*                                                                         *)
(* A byte string is a sequence of one-character strings; the control bytes *)
(* are named LF, CR, NUL, TAB.                                             *)
(***************************************************************************)
EXTENDS Integers, Sequences, FiniteSets, TLC

\* The framing round trip (TestRoundTrip, TestMultipleMessages): a Writer and
\* a Reader over one bytes.Buffer.
VARIABLES
    rtMethod,     \* the framing method of the writer and the reader
    rtMaxSize,    \* Reader.maxSize
    rtBuf,        \* the bytes written and not yet read
    rtWritten,    \* the messages passed to WriteMessage, in order
    rtResults,    \* what the ReadMessage calls returned, in order
    rtPhase       \* "write", then "read"

rtVars == <<rtMethod, rtMaxSize, rtBuf, rtWritten, rtResults, rtPhase>>

\* A call of one of the package functions (framing.AutoDetectFraming,
\* parser.Parse, parser.ParseRFC3164, parser.ParseRFC5424) on an input.
VARIABLES
    fnName,       \* the function called
    fnIn,         \* its input
    fnPc,         \* "idle", "called", "returned"
    fnOut         \* what it returned

fnVars == <<fnName, fnIn, fnPc, fnOut>>

\* The collector, its goroutines, and the network around it.  A source is 0
\* (the UDP socket) or the number of a TCP connection.
VARIABLES
    protocol,       \* Collector.protocol
    framingMethod,  \* Collector.framingMethod
    env,            \* what the environment may do: connections, frames, datagrams, calls of Stop
    ctxDone,        \* whether Collector.cancel has been called (ctx.Done() is closed)
    udpConn,        \* whether Collector.udpConn has been assigned
    tcpListener,    \* whether Collector.tcpListener has been assigned
    udpSock,        \* the UDP socket startUDP binds: "none", "open", "closed"
    tcpSock,        \* the listener startTCP binds: "none", "open", "closed"
    startPc,        \* Start: "idle", "select" (mode both), "returned"
    startRet,       \* what Start returned
    errChan,        \* Start's errChan (mode both)
    udpPc,          \* where startUDP is
    tcpPc,          \* where startTCP is
    connPc,         \* per connection, where handleTCPConnection is
    connState,      \* per connection: "none", "open", "eof", "reset"
    connStream,     \* per connection, the bytes sent and not yet read
    udpQueue,       \* the datagrams received by the socket and not yet read
    udpSent,        \* the number of datagrams sent
    curRaw,         \* per source, the raw message being processed
    accepted,       \* per source, the raw messages read so far that Parse accepts
    handled,        \* per source, the messages the handler was called with
    handlerRets,    \* per source, what the handler's calls returned, in order
    sentLog,        \* per connection, the frames the peer sent
    stopPc,         \* Stop: "idle", "closeUDP", "closeTCP"
    stopRets        \* what the Stop calls returned, in order

netVars == <<connState, connStream, udpQueue, udpSent, sentLog>>
histVars == <<accepted, handled, handlerRets>>
startVars == <<startPc, startRet, errChan>>
stopVars == <<stopPc, stopRets>>
sockVars == <<udpConn, tcpListener, udpSock, tcpSock>>
cfgVars == <<protocol, framingMethod, env>>
colVars == <<cfgVars, ctxDone, sockVars, startVars, udpPc, tcpPc, connPc, curRaw,
             netVars, histVars, stopVars>>

\* The server around the collector (cmd/collector): the AuthManager behind the
\* HTTP API, the Storage the handler writes to, and the clock they read.
VARIABLES
    now,          \* time.Now(), in hours
    enabled,      \* AuthManager.enabled
    users,        \* AuthManager.users: username -> User
    sessions,     \* AuthManager.sessions: token -> Session
    issued,       \* per session token CreateSession returned, the user and the time
    deleted,      \* the session tokens handleLogout passed to DeleteSession
    authCall,     \* the last call of the AuthManager or of a handler, with its result
    storeKind,    \* the Storage implementation: "memory" or "sqlite"
    messages,     \* MemoryStorage.messages, or the rows of syslog_messages
    storeCall     \* the last call of the Storage, with its result

authVars == <<enabled, users, sessions, issued, deleted, authCall>>
storeVars == <<storeKind, messages, storeCall>>
appVars == <<now, authVars, storeVars>>

vars == <<appVars, fnVars, rtVars, colVars>>

\* ------------------------------------------------------------------ bytes

SP == " "
LF == "LF"
CR == "CR"
NUL == "NUL"
TAB == "TAB"

\* unicode.IsSpace, restricted to the bytes of the model
WhiteSpace == {SP, LF, CR, TAB}

DigitChars == <<"0", "1", "2", "3", "4", "5", "6", "7", "8", "9">>

IsDigit(b) == \E i \in 1..10 : DigitChars[i] = b

DigitVal(b) == (CHOOSE i \in 1..10 : DigitChars[i] = b) - 1

\* s[from..to], empty when from > to
Slice(s, from, to) == IF from > to THEN <<>> ELSE SubSeq(s, from, to)

\* strings.IndexByte, 1-based; 0 when b does not occur
IndexByte(s, b) ==
    IF \E i \in 1..Len(s) : s[i] = b
    THEN CHOOSE i \in 1..Len(s) : s[i] = b /\ \A j \in 1..(i - 1) : s[j] # b
    ELSE 0

\* strings.TrimRight(s, cutset): bytes of the cutset are dropped from the end
RECURSIVE TrimRight(_, _)
TrimRight(s, cutset) ==
    IF Len(s) > 0 /\ s[Len(s)] \in cutset
    THEN TrimRight(Slice(s, 1, Len(s) - 1), cutset)
    ELSE s

\* strings.TrimLeft(s, cutset): bytes of the cutset are dropped from the start
RECURSIVE TrimLeft(_, _)
TrimLeft(s, cutset) ==
    IF Len(s) > 0 /\ s[1] \in cutset
    THEN TrimLeft(Slice(s, 2, Len(s)), cutset)
    ELSE s

\* strings.TrimSpace
TrimSpace(s) == TrimLeft(TrimRight(s, WhiteSpace), WhiteSpace)

\* The value of the decimal digits s[1..n]
RECURSIVE DigitsValueUpTo(_, _)
DigitsValueUpTo(s, n) ==
    IF n = 0 THEN 0 ELSE 10 * DigitsValueUpTo(s, n - 1) + DigitVal(s[n])

DigitsValue(s) == DigitsValueUpTo(s, Len(s))

\* strconv.Atoi: an optional sign, then one or more decimal digits.  (The
\* out-of-range error needs more than 18 digits and is beyond the model's
\* byte strings.)
Atoi(s) ==
    LET signed == Len(s) > 0 /\ s[1] \in {"+", "-"}
        body == IF signed THEN Tail(s) ELSE s
    IN IF Len(body) = 0 \/ \E i \in 1..Len(body) : ~IsDigit(body[i])
       THEN [ok |-> FALSE, val |-> 0]
       ELSE [ok |-> TRUE,
             val |-> IF signed /\ s[1] = "-" THEN 0 - DigitsValue(body)
                     ELSE DigitsValue(body)]

\* fmt.Sprintf("%d", n) for n >= 0
RECURSIVE Itoa(_)
Itoa(n) ==
    IF n < 10 THEN <<DigitChars[n + 1]>>
    ELSE Itoa(n \div 10) \o <<DigitChars[(n % 10) + 1]>>

\* The length of the longest prefix of s whose bytes all lie in class.
RunLength(s, class) ==
    IF \E i \in 1..Len(s) : s[i] \notin class
    THEN (CHOOSE i \in 1..Len(s) : s[i] \notin class /\ \A j \in 1..(i - 1) : s[j] \in class) - 1
    ELSE Len(s)

DigitSet == {DigitChars[i] : i \in 1..10}

\* ---------------------------------------------------------------- framing

OctetCounting == "OctetCounting"
NonTransparent == "NonTransparent"
FramingMethod == {OctetCounting, NonTransparent}

\* The state of the byte stream under a bufio.Reader: "open" (more bytes may
\* come, a read blocks), "eof" (the writer is done: io.EOF after the last
\* byte) or "reset" (another I/O error after the last byte).
StreamStates == {"open", "eof", "reset"}

\* A ReadMessage outcome: status "ok" (msg returned, err nil), "err" (an error
\* returned) or "block" (the call has not returned yet); rest is what is left
\* unread.
Outcome(status, msg, err, rest) ==
    [status |-> status, msg |-> msg, err |-> err, rest |-> rest]

\* A faulty ReadString, which leaves the delimiter unread.
ReadString_KeepsDelim(stream, st, delim) ==
    LET i == IndexByte(stream, delim)
    IN IF i > 0 THEN [status |-> "ok", data |-> Slice(stream, 1, i),
                       rest |-> Slice(stream, i, Len(stream))]
       ELSE IF st = "open" THEN [status |-> "block", data |-> <<>>, rest |-> stream]
       ELSE [status |-> st, data |-> stream, rest |-> <<>>]

\* bufio.Reader.ReadString(delim): the bytes up to and including the first
\* delim; at the end of the stream, what was buffered and the stream's error.
ReadString(stream, st, delim) ==
    LET i == IndexByte(stream, delim)
    IN IF i > 0 THEN [status |-> "ok", data |-> Slice(stream, 1, i),
                       rest |-> Slice(stream, i + 1, Len(stream))]
       ELSE IF st = "open" THEN [status |-> "block", data |-> <<>>, rest |-> stream]
       ELSE [status |-> st, data |-> stream, rest |-> <<>>]

\* The one element of a singleton.  A value TLC is to compute once is bound
\* as {e : x \in {v}}, where a LET would compute v at each use of x.
The(S) == CHOOSE x \in S : TRUE

\* A faulty readOctetCounting, which reads the declared number of bytes
\* before it compares the length with the maximum size.
readOctetCountingBody_ReadsFirst(stream, st, maxSize, pre, length) ==
    LET avail == Len(pre.rest)
    IN IF pre.status = "block" THEN Outcome("block", <<>>, "", stream)
       ELSE IF pre.status # "ok"
       THEN Outcome("err", <<>>, "failed to read length prefix", pre.rest)
       ELSE IF ~length.ok
       THEN Outcome("err", <<>>, "invalid length prefix", pre.rest)
       ELSE IF length.val <= 0
       THEN Outcome("err", <<>>, "invalid message length", pre.rest)
       ELSE IF avail < length.val
       THEN IF st = "open" THEN Outcome("block", <<>>, "", stream)
            ELSE Outcome("err", <<>>, "failed to read message", <<>>)
       ELSE IF length.val > maxSize
       THEN Outcome("err", <<>>, "message length exceeds maximum",
                    Slice(pre.rest, length.val + 1, avail))
       ELSE Outcome("ok", Slice(pre.rest, 1, length.val), "",
                    Slice(pre.rest, length.val + 1, avail))

\* A faulty readOctetCounting, which returns the bytes there are when the
\* stream ends before the declared number of bytes.
readOctetCountingBody_ShortRead(stream, st, maxSize, pre, length) ==
    LET avail == Len(pre.rest)
    IN IF pre.status = "block" THEN Outcome("block", <<>>, "", stream)
       ELSE IF pre.status # "ok"
       THEN Outcome("err", <<>>, "failed to read length prefix", pre.rest)
       ELSE IF ~length.ok
       THEN Outcome("err", <<>>, "invalid length prefix", pre.rest)
       ELSE IF length.val <= 0
       THEN Outcome("err", <<>>, "invalid message length", pre.rest)
       ELSE IF length.val > maxSize
       THEN Outcome("err", <<>>, "message length exceeds maximum", pre.rest)
       ELSE IF avail >= length.val
       THEN Outcome("ok", Slice(pre.rest, 1, length.val), "",
                    Slice(pre.rest, length.val + 1, avail))
       ELSE IF st = "open" THEN Outcome("block", <<>>, "", stream)
       ELSE Outcome("ok", pre.rest, "", <<>>)

\* readOctetCounting once the length prefix is read and converted.
readOctetCountingBody(stream, st, maxSize, pre, length) ==
    LET avail == Len(pre.rest)
    IN IF pre.status = "block" THEN Outcome("block", <<>>, "", stream)
       ELSE IF pre.status # "ok"
       THEN Outcome("err", <<>>, "failed to read length prefix", pre.rest)
       ELSE IF ~length.ok
       THEN Outcome("err", <<>>, "invalid length prefix", pre.rest)
       ELSE IF length.val <= 0
       THEN Outcome("err", <<>>, "invalid message length", pre.rest)
       ELSE IF length.val > maxSize
       THEN Outcome("err", <<>>, "message length exceeds maximum", pre.rest)
       ELSE IF avail >= length.val
       THEN Outcome("ok", Slice(pre.rest, 1, length.val), "",
                    Slice(pre.rest, length.val + 1, avail))
       ELSE IF st = "open" THEN Outcome("block", <<>>, "", stream)
       ELSE Outcome("err", <<>>, "failed to read message", <<>>)

readOctetCounting(stream, st, maxSize) ==
    The({The({readOctetCountingBody(stream, st, maxSize, pre, length) :
                  length \in {Atoi(TrimSpace(pre.data))}}) :
             pre \in {ReadString(stream, st, SP)}})

\* A faulty readNonTransparent, to which the end of the stream is an error
\* like any other.
readNonTransparent_EOFIsError(stream, st, maxSize) ==
    LET line == ReadString(stream, st, LF)
        message == TrimRight(line.data, {LF, CR, NUL})
    IN IF line.status = "block" THEN Outcome("block", <<>>, "", stream)
       ELSE IF line.status # "ok"
       THEN Outcome("err", <<>>, "failed to read message", line.rest)
       ELSE IF Len(message) > maxSize
       THEN Outcome("err", <<>>, "message length exceeds maximum", line.rest)
       ELSE Outcome("ok", message, "", line.rest)

readNonTransparent(stream, st, maxSize) ==
    LET line == ReadString(stream, st, LF)
        message == TrimRight(line.data, {LF, CR, NUL})
    IN IF line.status = "block" THEN Outcome("block", <<>>, "", stream)
       ELSE IF line.status = "reset"
       THEN Outcome("err", <<>>, "failed to read message", line.rest)
       ELSE IF Len(message) > maxSize
       THEN Outcome("err", <<>>, "message length exceeds maximum", line.rest)
       ELSE Outcome("ok", message, "", line.rest)

ReadMessage(method, stream, st, maxSize) ==
    IF method = OctetCounting THEN readOctetCounting(stream, st, maxSize)
    ELSE readNonTransparent(stream, st, maxSize)

writeOctetCounting(message) == Itoa(Len(message)) \o <<SP>> \o message

\* A faulty writeNonTransparent, which writes no delimiter.
writeNonTransparent_NoDelimiter(message) == message

writeNonTransparent(message) == message \o <<LF>>

WriteMessage(method, message) ==
    IF method = OctetCounting THEN writeOctetCounting(message)
    ELSE writeNonTransparent(message)

\* The number of bytes AutoDetectFraming peeks at.
PeekSize == 10

\* bufio.Reader.Peek(n): the first n bytes without consuming them; when the
\* stream ends before n bytes, the bytes there are and the stream's error.
Peek(stream, st, n) ==
    IF Len(stream) >= n THEN [status |-> "ok", data |-> Slice(stream, 1, n)]
    ELSE IF st = "open" THEN [status |-> "block", data |-> <<>>]
    ELSE [status |-> st, data |-> stream]

\* A faulty AutoDetectFraming, which takes a space at the head of the stream
\* for the end of a length prefix.
AutoDetectFraming_NoDigit(stream, st) ==
    LET peek == Peek(stream, st, PeekSize)
        i == RunLength(peek.data, DigitSet)
    IN IF peek.status = "block" THEN [status |-> "block", method |-> NonTransparent, err |-> ""]
       ELSE IF peek.status = "reset"
       THEN [status |-> "err", method |-> NonTransparent, err |-> "failed to peek at stream"]
       ELSE IF Len(peek.data) = 0
       THEN [status |-> "err", method |-> NonTransparent, err |-> "empty stream"]
       ELSE IF i < Len(peek.data) /\ peek.data[i + 1] = SP
       THEN [status |-> "ok", method |-> OctetCounting, err |-> ""]
       ELSE [status |-> "ok", method |-> NonTransparent, err |-> ""]

\* AutoDetectFraming: i is the index (from 0) of the first peeked byte that is
\* no digit, where the loop ends.
AutoDetectFraming(stream, st) ==
    LET peek == Peek(stream, st, PeekSize)
        i == RunLength(peek.data, DigitSet)
    IN IF peek.status = "block" THEN [status |-> "block", method |-> NonTransparent, err |-> ""]
       ELSE IF peek.status = "reset"
       THEN [status |-> "err", method |-> NonTransparent, err |-> "failed to peek at stream"]
       ELSE IF Len(peek.data) = 0
       THEN [status |-> "err", method |-> NonTransparent, err |-> "empty stream"]
       ELSE IF i < Len(peek.data) /\ peek.data[i + 1] = SP /\ i > 0
       THEN [status |-> "ok", method |-> OctetCounting, err |-> ""]
       ELSE [status |-> "ok", method |-> NonTransparent, err |-> ""]

\* ----------------------------------------------------------------- parser

\* Go's integer division and remainder truncate toward zero.
GoDiv(a, b) == IF a >= 0 THEN a \div b ELSE 0 - ((0 - a) \div b)

\* A faulty remainder, which is the quotient once more.
GoMod_Quotient(a, b) == GoDiv(a, b)

GoMod(a, b) == a - b * GoDiv(a, b)

HasPrefix(s, p) == Len(s) >= Len(p) /\ Slice(s, 1, Len(p)) = p

\* strings.SplitN(s, " ", n) for n >= 1: at most n fields, the last one
\* holding the unsplit remainder.
RECURSIVE SplitN(_, _)
SplitN(s, n) ==
    LET i == IndexByte(s, SP)
    IN IF n <= 1 \/ i = 0 THEN <<s>>
       ELSE <<Slice(s, 1, i - 1)>> \o SplitN(Slice(s, i + 1, Len(s)), n - 1)

\* The time zone of a time.Time, in which its fields are presented: time.UTC;
\* time.Local, the zone of the machine, which time.Now() carries; or the zone
\* time.Parse gives a time written with an offset of so many minutes east of
\* UTC (time.Local if the machine's zone has that offset at that time, and a
\* zone fixed at the offset otherwise).
LocUTC == <<"UTC">>

LocLocal == <<"Local">>

LocOffset(minutes) == <<"Offset", minutes>>

\* A faulty &SyslogMessage{Raw: raw}, which keeps the input trimmed.
NewMessage_TrimsRaw(raw) ==
    [Timestamp |-> [Location |-> LocUTC],
     Hostname |-> <<>>, Facility |-> 0, Severity |-> 0, Tag |-> <<>>,
     Message |-> <<>>, Raw |-> TrimSpace(raw), PID |-> <<>>, AppName |-> <<>>,
     ProcID |-> <<>>, MsgID |-> <<>>]

\* The SyslogMessage a parse starts from: every field empty but Raw.  The
\* zero time.Time is in UTC.
NewMessage(raw) ==
    [Timestamp |-> [Location |-> LocUTC],
     Hostname |-> <<>>, Facility |-> 0, Severity |-> 0, Tag |-> <<>>,
     Message |-> <<>>, Raw |-> raw, PID |-> <<>>, AppName |-> <<>>,
     ProcID |-> <<>>, MsgID |-> <<>>]

ParseOk(msg) == [err |-> "", msg |-> msg]

ParseErr(e) == [err |-> e, msg |-> NewMessage(<<>>)]

\* A faulty isRFC5424, whose pattern `^<\d+>(\d+)` asks for no white space
\* after the version.
isRFC5424_NoSpace(raw) ==
    /\ Len(raw) > 0
    /\ raw[1] = "<"
    /\ LET d1 == RunLength(Tail(raw), DigitSet)
           after == Slice(raw, d1 + 2, Len(raw))
           d2 == IF Len(after) > 0 /\ after[1] = ">"
                 THEN RunLength(Tail(after), DigitSet) ELSE 0
       IN /\ d1 >= 1
          /\ Len(after) > 0
          /\ after[1] = ">"
          /\ d2 >= 1

\* regexp `^<\d+>(\d+)\s`
isRFC5424(raw) ==
    /\ Len(raw) > 0
    /\ raw[1] = "<"
    /\ LET d1 == RunLength(Tail(raw), DigitSet)
           after == Slice(raw, d1 + 2, Len(raw))
           d2 == IF Len(after) > 0 /\ after[1] = ">"
                 THEN RunLength(Tail(after), DigitSet) ELSE 0
       IN /\ d1 >= 1
          /\ Len(after) > 0
          /\ after[1] = ">"
          /\ d2 >= 1
          /\ Len(after) >= d2 + 2
          /\ after[d2 + 2] \in WhiteSpace

\* regexp `^([^\s\[:]+)(?:\[(\d+)\])?:\s*(.*)$` applied to rest: the tag is the
\* longest run of bytes other than white space, '[' and ':'; '.' matches any
\* byte but LF.
tagRe(rest) ==
    LET tagLen == RunLength(rest, {b \in {rest[i] : i \in 1..Len(rest)} :
                                      b \notin WhiteSpace \cup {"[", ":"}})
        after == Slice(rest, tagLen + 1, Len(rest))
        pidLen == IF Len(after) > 0 /\ after[1] = "["
                  THEN RunLength(Tail(after), DigitSet) ELSE 0
        hasPid == /\ pidLen >= 1
                  /\ Len(after) >= pidLen + 3
                  /\ after[pidLen + 2] = "]"
                  /\ after[pidLen + 3] = ":"
        colon == IF hasPid THEN pidLen + 3
                 ELSE IF Len(after) > 0 /\ after[1] = ":" THEN 1 ELSE 0
        tail == Slice(after, colon + 1, Len(after))
        text == Slice(tail, RunLength(tail, WhiteSpace) + 1, Len(tail))
    IN IF tagLen >= 1 /\ colon > 0 /\ IndexByte(text, LF) = 0
       THEN [matched |-> TRUE, tag |-> Slice(rest, 1, tagLen),
             pid |-> IF hasPid THEN Slice(after, 2, pidLen + 1) ELSE <<>>,
             message |-> text]
       ELSE [matched |-> FALSE, tag |-> <<>>, pid |-> <<>>, message |-> <<>>]

UpperCase ==
    <<"A", "B", "C", "D", "E", "F", "G", "H", "I", "J", "K", "L", "M",
      "N", "O", "P", "Q", "R", "S", "T", "U", "V", "W", "X", "Y", "Z">>

LowerCase ==
    <<"a", "b", "c", "d", "e", "f", "g", "h", "i", "j", "k", "l", "m",
      "n", "o", "p", "q", "r", "s", "t", "u", "v", "w", "x", "y", "z">>

Lower(b) ==
    IF \E i \in 1..26 : UpperCase[i] = b
    THEN LowerCase[CHOOSE i \in 1..26 : UpperCase[i] = b]
    ELSE b

\* The month names of the layout element "Jan".
shortMonthNames ==
    <<<<"J", "a", "n">>, <<"F", "e", "b">>, <<"M", "a", "r">>, <<"A", "p", "r">>,
      <<"M", "a", "y">>, <<"J", "u", "n">>, <<"J", "u", "l">>, <<"A", "u", "g">>,
      <<"S", "e", "p">>, <<"O", "c", "t">>, <<"N", "o", "v">>, <<"D", "e", "c">>>>

\* time's lookup of a month name at the head of value, whatever the case of
\* its letters: the number of the month, or 0.
lookupMonth(value) ==
    LET found == {m \in 1..12 : /\ Len(value) >= 3
                                /\ \A k \in 1..3 : Lower(value[k]) = Lower(shortMonthNames[m][k])}
    IN IF found = {} THEN 0 ELSE CHOOSE m \in found : TRUE

\* time's getnum: a number of one or two digits at the head of s, of two
\* digits when fixed.
getnum(s, fixed) ==
    IF Len(s) = 0 \/ ~IsDigit(s[1]) THEN [ok |-> FALSE, val |-> 0, rest |-> s]
    ELSE IF Len(s) < 2 \/ ~IsDigit(s[2])
    THEN IF fixed THEN [ok |-> FALSE, val |-> 0, rest |-> s]
         ELSE [ok |-> TRUE, val |-> DigitVal(s[1]), rest |-> Tail(s)]
    ELSE [ok |-> TRUE, val |-> 10 * DigitVal(s[1]) + DigitVal(s[2]),
          rest |-> Slice(s, 3, Len(s))]

\* time's skip of a space of the layout: a run of spaces of the value (none
\* only at the end of the value).
skipSpace(value) ==
    IF Len(value) > 0 /\ value[1] # SP THEN [ok |-> FALSE, rest |-> value]
    ELSE [ok |-> TRUE, rest |-> TrimLeft(value, {SP})]

\* time's skip of a ':' of the layout.
skipColon(value) ==
    IF Len(value) = 0 \/ value[1] # ":" THEN [ok |-> FALSE, rest |-> value]
    ELSE [ok |-> TRUE, rest |-> Tail(value)]

\* The nanoseconds of the fraction of a second that follows the seconds: its
\* digits, of which time reads nine at most.
RECURSIVE parseNanoseconds(_, _)
parseNanoseconds(digits, places) ==
    IF places = 0 THEN 0
    ELSE (IF Len(digits) > 0 THEN DigitVal(digits[1]) ELSE 0) * (10 ^ (places - 1))
         + parseNanoseconds(IF Len(digits) > 0 THEN Tail(digits) ELSE digits, places - 1)

\* What follows the seconds: a fraction of a second ('.' or ',' and digits),
\* which Parse accepts though the layout has none, is skipped.
skipFraction(value) ==
    IF Len(value) >= 2 /\ value[1] \in {".", ","} /\ IsDigit(value[2])
    THEN Slice(value, 2 + RunLength(Tail(value), DigitSet), Len(value))
    ELSE value

IsLeap(year) == year % 4 = 0 /\ (year % 100 # 0 \/ year % 400 = 0)

daysIn(month, year) ==
    IF month = 2 THEN (IF IsLeap(year) THEN 29 ELSE 28)
    ELSE IF month \in {4, 6, 9, 11} THEN 30 ELSE 31

\* time.ParseInLocation under the layout "Jan _2 15:04:05" (the day of one or
\* two digits) or, with fixedDay, "Jan 02 15:04:05" (of two digits).  The
\* layout has no year, and the day is checked against the month in the year 0.
parseTimestamp(value, fixedDay) ==
    LET month == lookupMonth(value)
        s1 == skipSpace(Slice(value, 4, Len(value)))
        day == getnum(s1.rest, fixedDay)
        s2 == skipSpace(day.rest)
        hour == getnum(s2.rest, FALSE)
        c1 == skipColon(hour.rest)
        minute == getnum(c1.rest, TRUE)
        c2 == skipColon(minute.rest)
        second == getnum(c2.rest, TRUE)
    IN [ok |-> /\ month > 0
               /\ s1.ok /\ day.ok /\ s2.ok /\ hour.ok /\ c1.ok /\ minute.ok /\ c2.ok
               /\ second.ok
               /\ skipFraction(second.rest) = <<>>
               /\ hour.val < 24 /\ minute.val < 60 /\ second.val < 60
               /\ day.val >= 1 /\ day.val <= daysIn(month, 0),
        month |-> month, day |-> day.val, hour |-> hour.val,
        minute |-> minute.val, second |-> second.val,
        nsec |-> IF skipFraction(second.rest) # second.rest
                 THEN parseNanoseconds(Slice(second.rest, 2, Len(second.rest)), 9) ELSE 0]

\* The timestamp of an RFC 3164 message: the first of rfc3164TimeFormats that
\* parses the 15 bytes gives the time, which is converted to UTC; when none
\* does, the timestamp is time.Now().
timestampRFC3164(timestampStr) ==
    IF parseTimestamp(timestampStr, FALSE).ok \/ parseTimestamp(timestampStr, TRUE).ok
    THEN [Location |-> LocUTC]
    ELSE [Location |-> LocLocal]

\* A faulty ParseRFC3164, which looks for the '>' and not for the '<'.
ParseRFC3164_NoBracketCheck(raw) ==
    LET priEnd == IndexByte(raw, ">")
        pri == Atoi(Slice(raw, 2, priEnd - 1))
        rest == TrimSpace(Slice(raw, priEnd + 1, Len(raw)))
        rest2 == TrimSpace(Slice(rest, 16, Len(rest)))
        parts == SplitN(rest2, 2)
        matches == tagRe(parts[2])
        fallback == SplitN(parts[2], 2)
        msg == [NewMessage(raw) EXCEPT !.Facility = GoDiv(pri.val, 8),
                                       !.Severity = GoMod(pri.val, 8),
                                       !.Timestamp = timestampRFC3164(Slice(rest, 1, 15)),
                                       !.Hostname = parts[1]]
    IN IF priEnd = 0
       THEN ParseErr("invalid RFC 3164 format: missing priority")
       ELSE IF ~pri.ok THEN ParseErr("invalid priority")
       ELSE IF Len(rest) < 16
       THEN ParseErr("invalid RFC 3164 format: message too short")
       ELSE IF Len(parts) < 2
       THEN ParseErr("invalid RFC 3164 format: missing hostname or message")
       ELSE IF matches.matched
       THEN ParseOk([msg EXCEPT !.Tag = matches.tag, !.PID = matches.pid,
                                !.Message = matches.message])
       ELSE ParseOk([msg EXCEPT !.Tag = fallback[1],
                                !.Message = IF Len(fallback) >= 2
                                            THEN fallback[2] ELSE <<>>])

ParseRFC3164(raw) ==
    LET priEnd == IndexByte(raw, ">")
        pri == Atoi(Slice(raw, 2, priEnd - 1))
        rest == TrimSpace(Slice(raw, priEnd + 1, Len(raw)))
        rest2 == TrimSpace(Slice(rest, 16, Len(rest)))
        parts == SplitN(rest2, 2)
        matches == tagRe(parts[2])
        fallback == SplitN(parts[2], 2)
        msg == [NewMessage(raw) EXCEPT !.Facility = GoDiv(pri.val, 8),
                                       !.Severity = GoMod(pri.val, 8),
                                       !.Timestamp = timestampRFC3164(Slice(rest, 1, 15)),
                                       !.Hostname = parts[1]]
    IN IF priEnd = 0 \/ raw[1] # "<"
       THEN ParseErr("invalid RFC 3164 format: missing priority")
       ELSE IF ~pri.ok THEN ParseErr("invalid priority")
       ELSE IF Len(rest) < 16
       THEN ParseErr("invalid RFC 3164 format: message too short")
       ELSE IF Len(parts) < 2
       THEN ParseErr("invalid RFC 3164 format: missing hostname or message")
       ELSE IF matches.matched
       THEN ParseOk([msg EXCEPT !.Tag = matches.tag, !.PID = matches.pid,
                                !.Message = matches.message])
       ELSE ParseOk([msg EXCEPT !.Tag = fallback[1],
                                !.Message = IF Len(fallback) >= 2
                                            THEN fallback[2] ELSE <<>>])

\* A faulty scan, to which a backslash is a byte like any other.
RECURSIVE sdScan_NoEscape(_, _, _, _)
sdScan_NoEscape(s, i, depth, escaped) ==
    IF i > Len(s) THEN -1
    ELSE IF s[i] = "[" THEN sdScan_NoEscape(s, i + 1, depth + 1, FALSE)
    ELSE IF s[i] = "]"
    THEN IF depth - 1 = 0 THEN i ELSE sdScan_NoEscape(s, i + 1, depth - 1, FALSE)
    ELSE sdScan_NoEscape(s, i + 1, depth, FALSE)

\* The scan of findStructuredDataEnd from byte i on, 1-based; the number of
\* bytes up to and including the ']' that closes the first '[', or -1.
RECURSIVE sdScan(_, _, _, _)
sdScan(s, i, depth, escaped) ==
    IF i > Len(s) THEN -1
    ELSE IF escaped THEN sdScan(s, i + 1, depth, FALSE)
    ELSE IF s[i] = "\\" THEN sdScan(s, i + 1, depth, TRUE)
    ELSE IF s[i] = "[" THEN sdScan(s, i + 1, depth + 1, FALSE)
    ELSE IF s[i] = "]"
    THEN IF depth - 1 = 0 THEN i ELSE sdScan(s, i + 1, depth - 1, FALSE)
    ELSE sdScan(s, i + 1, depth, FALSE)

findStructuredDataEnd(s) == sdScan(s, 1, 0, FALSE)

AllDigits(s) == \A i \in 1..Len(s) : IsDigit(s[i])

\* Whether time.Parse accepts the field under the layout time.RFC3339,
\* "2006-01-02T15:04:05Z07:00": a four-digit year, two-digit month and day, an
\* hour of one or two digits, two-digit minute and second, an optional
\* fraction ('.' or ',' and digits, which Parse accepts after the seconds of
\* any layout), then "Z" or a +hh:mm / -hh:mm offset, and nothing else.  The
\* second layout the code tries, with ".999999", accepts the same fields.
validRFC3339(f) ==
    LET hourLen == IF Len(f) >= 13 /\ IsDigit(f[13]) THEN 2 ELSE 1
        m0 == 12 + hourLen        \* the ':' after the hour
        s0 == m0 + 3              \* the ':' after the minute
        e0 == s0 + 2              \* the last digit of the second
        hasFrac == /\ Len(f) >= e0 + 2
                   /\ f[e0 + 1] \in {".", ","}
                   /\ IsDigit(f[e0 + 2])
        fracLen == IF hasFrac
                   THEN 1 + RunLength(Slice(f, e0 + 2, Len(f)), DigitSet) ELSE 0
        zone == Slice(f, e0 + fracLen + 1, Len(f))
        year == DigitsValue(Slice(f, 1, 4))
        month == DigitsValue(Slice(f, 6, 7))
        day == DigitsValue(Slice(f, 9, 10))
        hour == DigitsValue(Slice(f, 12, 11 + hourLen))
        minute == DigitsValue(Slice(f, m0 + 1, m0 + 2))
        second == DigitsValue(Slice(f, s0 + 1, s0 + 2))
    IN /\ Len(f) >= e0 + 1
       /\ AllDigits(Slice(f, 1, 4)) /\ f[5] = "-"
       /\ AllDigits(Slice(f, 6, 7)) /\ f[8] = "-"
       /\ AllDigits(Slice(f, 9, 10)) /\ f[11] = "T"
       /\ IsDigit(f[12]) /\ f[m0] = ":"
       /\ AllDigits(Slice(f, m0 + 1, m0 + 2)) /\ f[s0] = ":"
       /\ AllDigits(Slice(f, s0 + 1, s0 + 2))
       /\ \/ zone = <<"Z">>
          \/ /\ Len(zone) = 6
             /\ zone[1] \in {"+", "-"}
             /\ AllDigits(Slice(zone, 2, 3)) /\ zone[4] = ":"
             /\ AllDigits(Slice(zone, 5, 6))
             /\ DigitsValue(Slice(zone, 2, 3)) <= 24
             /\ DigitsValue(Slice(zone, 5, 6)) <= 60
       /\ month \in 1..12
       /\ hour < 24 /\ minute < 60 /\ second < 60
       /\ day \in 1..daysIn(month, year)

\* The time time.Parse returns for a field it accepts: in UTC when the field
\* ends in "Z", and otherwise in the zone of the +hh:mm / -hh:mm offset
\* written, which is not converted.
parseRFC3339(f) ==
    LET zone == Slice(f, Len(f) - 5, Len(f))
        minutes == 60 * DigitsValue(Slice(zone, 2, 3)) + DigitsValue(Slice(zone, 5, 6))
    IN IF f[Len(f)] = "Z" THEN [Location |-> LocUTC]
       ELSE [Location |-> LocOffset(IF zone[1] = "-" THEN 0 - minutes ELSE minutes)]

\* A faulty ParseRFC5424, which stores a "-" like any other value.
ParseRFC5424_KeepsDash(raw) ==
    LET priEnd == IndexByte(raw, ">")
        pri == Atoi(Slice(raw, 2, priEnd - 1))
        rest == TrimSpace(Slice(raw, priEnd + 1, Len(raw)))
        fields == SplitN(rest, 7)
        remainder == fields[7]
        sdEnd == findStructuredDataEnd(remainder)
        absent(f) == f
        message ==
            IF HasPrefix(remainder, <<"[">>)
            THEN IF sdEnd > 0
                 THEN IF sdEnd < Len(remainder)
                      THEN TrimSpace(Slice(remainder, sdEnd + 1, Len(remainder)))
                      ELSE <<>>
                 ELSE remainder
            ELSE IF remainder = <<"-">> THEN <<>>
            ELSE IF HasPrefix(remainder, <<"-", SP>>)
            THEN Slice(remainder, 3, Len(remainder))
            ELSE remainder
    IN IF priEnd = 0 \/ raw[1] # "<"
       THEN ParseErr("invalid RFC 5424 format: missing priority")
       ELSE IF ~pri.ok THEN ParseErr("invalid priority")
       ELSE IF Len(fields) < 7
       THEN ParseErr("invalid RFC 5424 format: insufficient fields")
       ELSE IF ~Atoi(fields[1]).ok THEN ParseErr("invalid version field")
       ELSE IF fields[2] # <<"-">> /\ ~validRFC3339(fields[2])
       THEN ParseErr("invalid timestamp")
       ELSE ParseOk([NewMessage(raw) EXCEPT
                        !.Facility = GoDiv(pri.val, 8),
                        !.Severity = GoMod(pri.val, 8),
                        !.Timestamp = IF fields[2] = <<"-">> THEN [Location |-> LocLocal]
                                      ELSE parseRFC3339(fields[2]),
                        !.Hostname = absent(fields[3]),
                        !.AppName = absent(fields[4]),
                        !.Tag = absent(fields[4]),
                        !.ProcID = absent(fields[5]),
                        !.PID = absent(fields[5]),
                        !.MsgID = absent(fields[6]),
                        !.Message = message])

ParseRFC5424(raw) ==
    LET priEnd == IndexByte(raw, ">")
        pri == Atoi(Slice(raw, 2, priEnd - 1))
        rest == TrimSpace(Slice(raw, priEnd + 1, Len(raw)))
        fields == SplitN(rest, 7)
        remainder == fields[7]
        sdEnd == findStructuredDataEnd(remainder)
        absent(f) == IF f = <<"-">> THEN <<>> ELSE f
        message ==
            IF HasPrefix(remainder, <<"[">>)
            THEN IF sdEnd > 0
                 THEN IF sdEnd < Len(remainder)
                      THEN TrimSpace(Slice(remainder, sdEnd + 1, Len(remainder)))
                      ELSE <<>>
                 ELSE remainder
            ELSE IF remainder = <<"-">> THEN <<>>
            ELSE IF HasPrefix(remainder, <<"-", SP>>)
            THEN Slice(remainder, 3, Len(remainder))
            ELSE remainder
    IN IF priEnd = 0 \/ raw[1] # "<"
       THEN ParseErr("invalid RFC 5424 format: missing priority")
       ELSE IF ~pri.ok THEN ParseErr("invalid priority")
       ELSE IF Len(fields) < 7
       THEN ParseErr("invalid RFC 5424 format: insufficient fields")
       ELSE IF ~Atoi(fields[1]).ok THEN ParseErr("invalid version field")
       ELSE IF fields[2] # <<"-">> /\ ~validRFC3339(fields[2])
       THEN ParseErr("invalid timestamp")
       ELSE ParseOk([NewMessage(raw) EXCEPT
                        !.Facility = GoDiv(pri.val, 8),
                        !.Severity = GoMod(pri.val, 8),
                        !.Timestamp = IF fields[2] = <<"-">> THEN [Location |-> LocLocal]
                                      ELSE parseRFC3339(fields[2]),
                        !.Hostname = absent(fields[3]),
                        !.AppName = absent(fields[4]),
                        !.Tag = absent(fields[4]),
                        !.ProcID = absent(fields[5]),
                        !.PID = absent(fields[5]),
                        !.MsgID = absent(fields[6]),
                        !.Message = message])

Parse(raw) ==
    IF raw = <<>> THEN ParseErr("empty syslog message")
    ELSE IF isRFC5424(raw) THEN ParseRFC5424(raw)
    ELSE ParseRFC3164(raw)

\* ------------------------------------------------------------- collector

\* Bounds: the TCP connections, the frames they carry in all, the datagrams,
\* the calls of Stop, and the configured Config.MaxMessageSize.
MaxConns == 2
MaxFrames == 2
MaxDatagrams == 2
MaxStops == 2
CfgMaxMessageSize == 26

\* The configurations: a protocol mode with what the environment may do
\* around it.  Stop is called, up to MaxStops times, in every mode; the mode
\* tcp runs also with up to MaxFrames frames over up to MaxConns connections
\* and the mode both with a connection beside a datagram.
Env(c, f, d, s) == [conns |-> c, frames |-> f, datagrams |-> d, stops |-> s]

Configurations ==
    {<<"udp", Env(0, 0, MaxDatagrams, MaxStops)>>,
     <<"tcp", Env(1, 1, 0, MaxStops)>>,
     <<"tcp", Env(MaxConns, MaxFrames, 0, 0)>>,
     <<"both", Env(1, 1, 0, MaxStops)>>,
     <<"both", Env(1, 1, 1, 0)>>,
     <<"ftp", Env(0, 0, 0, 1)>>}

UDP == 0
Conns == 1..MaxConns
Sources == 0..MaxConns

\* The messages the peers send: two that Parse accepts (RFC 3164, of exactly
\* 26 bytes, and RFC 5424), one that it rejects, and one longer than the
\* maximum size.
MsgA ==
    <<"<", "3", "4", ">", "O", "c", "t", SP, "1", "1", SP, "2", "2", ":",
      "1", "4", ":", "1", "5", SP, "h", SP, "t", ":", SP, "m">>

MsgB ==
    <<"<", "1", "3", ">", "1", SP, "-", SP, "h", SP, "a", SP, "p", SP, "i",
      SP, "-", SP, "x">>

MsgRejected ==
    <<"<", "3", "4", ">", "x">>

MsgLong == MsgA \o <<"z", "z">>

\* A message Parse accepts that ends with a white space.
MsgPadded == MsgB \o <<SP>>

PeerMsgs == {MsgA, MsgB, MsgRejected}

\* The frames a peer sends under a framing method: the frames of the
\* messages, and frames the reader rejects (a length prefix that is no
\* number, a declared length or a line above the maximum size, and, from a
\* peer that writes lines to a collector that counts octets, a line).
GoodFrames(method) == {[good |-> TRUE, msg |-> m, bytes |-> WriteMessage(method, m)] : m \in PeerMsgs}

BadFrames(method) ==
    IF method = OctetCounting
    THEN {[good |-> FALSE, msg |-> <<>>, bytes |-> <<"x", SP>>],
          [good |-> FALSE, msg |-> <<>>,
           bytes |-> Itoa(CfgMaxMessageSize + 1) \o <<SP>>],
          [good |-> FALSE, msg |-> <<>>, bytes |-> writeNonTransparent(MsgA)]}
    ELSE {[good |-> FALSE, msg |-> <<>>, bytes |-> writeNonTransparent(MsgLong)]}

Datagrams == {MsgA, MsgRejected, MsgLong, MsgPadded}

\* The raw messages the collector can read from these peers: a message sent,
\* or the head of one (a datagram is cut to the buffer's size, and the
\* non-transparent reader returns "" at the end of a stream).
Raws == UNION {{Slice(m, 1, n) : n \in 0..Len(m)} : m \in PeerMsgs \cup Datagrams}

\* parser.Parse on each of them, computed once.
Parsed == [r \in Raws |-> Parse(r)]

PcOf(s) == IF s = UDP THEN udpPc ELSE connPc[s]

SetPc(s, v) ==
    IF s = UDP THEN udpPc' = v /\ UNCHANGED connPc
    ELSE connPc' = [connPc EXCEPT ![s] = v] /\ UNCHANGED udpPc

RECURSIVE SumLen(_, _)
SumLen(f, n) == IF n = 0 THEN 0 ELSE Len(f[n]) + SumLen(f, n - 1)

\* The frames sent so far, over all connections.
FramesSent == SumLen(sentLog, MaxConns)

\* collector.New, with a configuration that names a handler.
New(cfgProtocol, cfgFramingMethod, e) ==
    /\ protocol = cfgProtocol
    /\ framingMethod = cfgFramingMethod
    /\ env = e
    /\ ctxDone = FALSE
    /\ udpConn = FALSE
    /\ tcpListener = FALSE
    /\ udpSock = "none"
    /\ tcpSock = "none"
    /\ startPc = "idle"
    /\ startRet = "none"
    /\ errChan = <<>>
    /\ udpPc = "off"
    /\ tcpPc = "off"
    /\ connPc = [c \in Conns |-> "none"]
    /\ connState = [c \in Conns |-> "none"]
    /\ connStream = [c \in Conns |-> <<>>]
    /\ udpQueue = <<>>
    /\ curRaw = [s \in Sources |-> <<>>]
    /\ accepted = [s \in Sources |-> <<>>]
    /\ udpSent = 0
    /\ handled = [s \in Sources |-> <<>>]
    /\ handlerRets = [s \in Sources |-> <<>>]
    /\ sentLog = [c \in Conns |-> <<>>]
    /\ stopPc = "idle"
    /\ stopRets = <<>>

\* The raw messages read from a source, with one more: those Parse rejects
\* leave no trace.
Record(s, data) ==
    IF Parsed[data].err = "" THEN [accepted EXCEPT ![s] = Append(@, data)]
    ELSE accepted

\* Mode both: fmt.Errorf("UDP error: %w", err) and fmt.Errorf("TCP error: %w", err)
WrapError(ret) ==
    IF ret = "failed to start UDP listener"
    THEN "UDP error: failed to start UDP listener"
    ELSE "TCP error: failed to start TCP listener"

\* startUDP or startTCP returns ret: to Start's caller in the modes udp and
\* tcp; in mode both to the goroutine that sends an error to errChan.
PathReturn(ret) ==
    IF protocol = "both"
    THEN /\ errChan' = IF ret = "nil" THEN errChan ELSE Append(errChan, WrapError(ret))
         /\ UNCHANGED <<startPc, startRet>>
    ELSE /\ startPc' = "returned"
         /\ startRet' = ret
         /\ UNCHANGED errChan

\* Start is called: the switch on c.protocol.
Start ==
    /\ startPc = "idle"
    /\ udpPc' = IF protocol \in {"udp", "both"} THEN "listen" ELSE udpPc
    /\ tcpPc' = IF protocol \in {"tcp", "both"} THEN "listen" ELSE tcpPc
    /\ startPc' = IF protocol = "both" THEN "select"
                  ELSE IF protocol = "ftp" THEN "returned" ELSE "running"
    /\ startRet' = IF protocol = "ftp" THEN "unsupported protocol" ELSE startRet
    /\ UNCHANGED <<appVars, fnVars, rtVars, cfgVars, ctxDone, sockVars, errChan, connPc, curRaw, netVars,
                   histVars, stopVars>>

\* A faulty select, which drops the error a path reported.
Start_Select_DropsError ==
    /\ startPc = "select"
    /\ \/ /\ Len(errChan) > 0
          /\ errChan' = Tail(errChan)
       \/ /\ ctxDone
          /\ UNCHANGED errChan
    /\ startRet' = "nil"
    /\ startPc' = "returned"
    /\ UNCHANGED <<appVars, fnVars, rtVars, cfgVars, ctxDone, sockVars, udpPc, tcpPc, connPc, curRaw, netVars,
                   histVars, stopVars>>

\* Mode both: the select on errChan and ctx.Done(); Go picks any ready case.
Start_Select ==
    /\ startPc = "select"
    /\ \/ /\ Len(errChan) > 0
          /\ startRet' = Head(errChan)
          /\ errChan' = Tail(errChan)
       \/ /\ ctxDone
          /\ startRet' = "nil"
          /\ UNCHANGED errChan
    /\ startPc' = "returned"
    /\ UNCHANGED <<appVars, fnVars, rtVars, cfgVars, ctxDone, sockVars, udpPc, tcpPc, connPc, curRaw, netVars,
                   histVars, stopVars>>

\* startUDP: ResolveUDPAddr and ListenUDP, which succeed or fail.
startUDP_Listen ==
    /\ udpPc = "listen"
    /\ \/ /\ udpSock' = "open"
          /\ udpPc' = "assign"
          /\ UNCHANGED startVars
       \/ /\ udpPc' = "done"
          /\ PathReturn("failed to start UDP listener")
          /\ UNCHANGED udpSock
    /\ UNCHANGED <<appVars, fnVars, rtVars, cfgVars, ctxDone, udpConn, tcpListener, tcpSock, tcpPc, connPc,
                   curRaw, netVars, histVars, stopVars>>

\* startUDP: c.udpConn = conn
startUDP_Assign ==
    /\ udpPc = "assign"
    /\ udpConn' = TRUE
    /\ udpPc' = "loop"
    /\ UNCHANGED <<appVars, fnVars, rtVars, cfgVars, ctxDone, tcpListener, udpSock, tcpSock, startVars, tcpPc,
                   connPc, curRaw, netVars, histVars, stopVars>>

\* startUDP: the select at the head of the loop.
startUDP_Loop ==
    /\ udpPc = "loop"
    /\ IF ctxDone
       THEN udpPc' = "done" /\ PathReturn("nil")
       ELSE udpPc' = "read" /\ UNCHANGED startVars
    /\ UNCHANGED <<appVars, fnVars, rtVars, cfgVars, ctxDone, sockVars, tcpPc, connPc, curRaw, netVars,
                   histVars, stopVars>>

\* What startUDP does with an error of ReadFromUDP.
startUDP_OnReadError ==
    IF ctxDone
    THEN udpPc' = "done" /\ PathReturn("nil")
    ELSE udpPc' = "loop" /\ UNCHANGED startVars

\* startUDP: conn.ReadFromUDP(buffer) returns a datagram, cut to the buffer's
\* size, or fails because the socket is closed.
startUDP_Read ==
    /\ udpPc = "read"
    /\ IF udpSock = "closed"
       THEN /\ startUDP_OnReadError
            /\ UNCHANGED <<curRaw, udpQueue, accepted>>
       ELSE /\ Len(udpQueue) > 0
            /\ LET n == IF Len(Head(udpQueue)) < CfgMaxMessageSize
                        THEN Len(Head(udpQueue)) ELSE CfgMaxMessageSize
                   data == Slice(Head(udpQueue), 1, n)
               IN /\ curRaw' = [curRaw EXCEPT ![UDP] = data]
                  /\ accepted' = Record(UDP, data)
            /\ udpQueue' = Tail(udpQueue)
            /\ udpPc' = "process"
            /\ UNCHANGED startVars
    /\ UNCHANGED <<appVars, fnVars, rtVars, cfgVars, ctxDone, sockVars, tcpPc, connPc, connState,
                   connStream, udpSent, sentLog, handled, handlerRets, stopVars>>

\* startUDP: ReadFromUDP fails on the open socket (a transient error).
startUDP_ReadError ==
    /\ udpPc = "read"
    /\ udpSock = "open"
    /\ startUDP_OnReadError
    /\ UNCHANGED <<appVars, fnVars, rtVars, cfgVars, ctxDone, sockVars, tcpPc, connPc, curRaw, netVars,
                   histVars, stopVars>>

\* startTCP: net.Listen, which succeeds or fails.
startTCP_Listen ==
    /\ tcpPc = "listen"
    /\ \/ /\ tcpSock' = "open"
          /\ tcpPc' = "assign"
          /\ UNCHANGED startVars
       \/ /\ tcpPc' = "done"
          /\ PathReturn("failed to start TCP listener")
          /\ UNCHANGED tcpSock
    /\ UNCHANGED <<appVars, fnVars, rtVars, cfgVars, ctxDone, udpConn, tcpListener, udpSock, udpPc, connPc,
                   curRaw, netVars, histVars, stopVars>>

\* startTCP: c.tcpListener = listener
startTCP_Assign ==
    /\ tcpPc = "assign"
    /\ tcpListener' = TRUE
    /\ tcpPc' = "loop"
    /\ UNCHANGED <<appVars, fnVars, rtVars, cfgVars, ctxDone, udpConn, udpSock, tcpSock, startVars, udpPc,
                   connPc, curRaw, netVars, histVars, stopVars>>

\* startTCP: the select at the head of the loop.
startTCP_Loop ==
    /\ tcpPc = "loop"
    /\ IF ctxDone
       THEN tcpPc' = "done" /\ PathReturn("nil")
       ELSE tcpPc' = "accept" /\ UNCHANGED startVars
    /\ UNCHANGED <<appVars, fnVars, rtVars, cfgVars, ctxDone, sockVars, udpPc, connPc, curRaw, netVars,
                   histVars, stopVars>>

\* What startTCP does with an error of Accept.
startTCP_OnAcceptError ==
    IF ctxDone
    THEN tcpPc' = "done" /\ PathReturn("nil")
    ELSE tcpPc' = "loop" /\ UNCHANGED startVars

\* startTCP: listener.Accept() returns a pending connection, whose goroutine
\* starts (handleTCPConnection up to its loop), or fails because the listener
\* is closed.
startTCP_Accept ==
    /\ tcpPc = "accept"
    /\ IF tcpSock = "closed"
       THEN /\ startTCP_OnAcceptError
            /\ UNCHANGED connPc
       ELSE /\ \E c \in Conns :
                  /\ connState[c] # "none"
                  /\ connPc[c] = "none"
                  /\ connPc' = [connPc EXCEPT ![c] = "loop"]
            /\ tcpPc' = "loop"
            /\ UNCHANGED startVars
    /\ UNCHANGED <<appVars, fnVars, rtVars, cfgVars, ctxDone, sockVars, udpPc, curRaw, netVars, histVars,
                   stopVars>>

\* startTCP: Accept fails on the open listener (a transient error).
startTCP_AcceptError ==
    /\ tcpPc = "accept"
    /\ tcpSock = "open"
    /\ startTCP_OnAcceptError
    /\ UNCHANGED <<appVars, fnVars, rtVars, cfgVars, ctxDone, sockVars, udpPc, connPc, curRaw, netVars,
                   histVars, stopVars>>

\* handleTCPConnection: the select at the head of the loop; on return the
\* deferred conn.Close() runs.
handleTCPConnection_Loop(c) ==
    /\ connPc[c] = "loop"
    /\ connPc' = [connPc EXCEPT ![c] = IF ctxDone THEN "closed" ELSE "read"]
    /\ UNCHANGED <<appVars, fnVars, rtVars, cfgVars, ctxDone, sockVars, startVars, udpPc, tcpPc, curRaw,
                   netVars, histVars, stopVars>>

\* A faulty handleTCPConnection, in which a read error cancels the collector.
handleTCPConnection_Read_Cancels(c) ==
    /\ connPc[c] = "read"
    /\ LET out == ReadMessage(framingMethod, connStream[c], connState[c], CfgMaxMessageSize)
       IN /\ out.status # "block"
          /\ connStream' = [connStream EXCEPT ![c] = out.rest]
          /\ IF out.status = "ok"
             THEN /\ curRaw' = [curRaw EXCEPT ![c] = out.msg]
                  /\ accepted' = Record(c, out.msg)
                  /\ connPc' = [connPc EXCEPT ![c] = "process"]
                  /\ UNCHANGED ctxDone
             ELSE /\ connPc' = [connPc EXCEPT ![c] = "closed"]
                  /\ ctxDone' = TRUE
                  /\ UNCHANGED <<curRaw, accepted>>
    /\ UNCHANGED <<appVars, fnVars, rtVars, cfgVars, sockVars, startVars, udpPc, tcpPc, connState,
                   udpQueue, udpSent, sentLog, handled, handlerRets, stopVars>>

\* handleTCPConnection: the reader of a connection, framing.NewReader(conn,
\* c.framingMethod) followed by SetMaxSize(c.maxMessageSize).
reader(c) == [method |-> framingMethod, maxSize |-> CfgMaxMessageSize]

\* handleTCPConnection: reader.ReadMessage() returns; on an error the task
\* returns, whether or not the collector is stopping.
handleTCPConnection_Read(c) ==
    /\ connPc[c] = "read"
    /\ LET out == ReadMessage(reader(c).method, connStream[c], connState[c], reader(c).maxSize)
       IN /\ out.status # "block"
          /\ connStream' = [connStream EXCEPT ![c] = out.rest]
          /\ IF out.status = "ok"
             THEN /\ curRaw' = [curRaw EXCEPT ![c] = out.msg]
                  /\ accepted' = Record(c, out.msg)
                  /\ connPc' = [connPc EXCEPT ![c] = "process"]
             ELSE /\ connPc' = [connPc EXCEPT ![c] = "closed"]
                  /\ UNCHANGED <<curRaw, accepted>>
    /\ UNCHANGED <<appVars, fnVars, rtVars, cfgVars, ctxDone, sockVars, startVars, udpPc, tcpPc, connState,
                   udpQueue, udpSent, sentLog, handled, handlerRets, stopVars>>

\* A faulty processMessage, which passes to the handler what Parse rejected.
processMessage_IgnoresError(s) ==
    /\ PcOf(s) = "process"
    /\ SetPc(s, "handler")
    /\ handled' = [handled EXCEPT ![s] = Append(@, Parsed[curRaw[s]].msg)]
    /\ UNCHANGED <<appVars, fnVars, rtVars, cfgVars, ctxDone, sockVars, startVars, tcpPc, curRaw, netVars, accepted,
                   handlerRets, stopVars>>

\* A faulty processMessage, which hands the newest message over first.
processMessage_NewestFirst(s) ==
    /\ PcOf(s) = "process"
    /\ LET res == Parsed[curRaw[s]]
       IN IF res.err # ""
          THEN /\ SetPc(s, "loop")
               /\ UNCHANGED handled
          ELSE /\ SetPc(s, "handler")
               /\ handled' = [handled EXCEPT ![s] = <<res.msg>> \o @]
    /\ UNCHANGED <<appVars, fnVars, rtVars, cfgVars, ctxDone, sockVars, startVars, tcpPc, curRaw, netVars, accepted,
                   handlerRets, stopVars>>

\* A faulty processMessage, in which a parse failure ends the loop that read
\* the message.
processMessage_FailureStops(s) ==
    /\ PcOf(s) = "process"
    /\ LET res == Parsed[curRaw[s]]
       IN IF res.err # ""
          THEN /\ SetPc(s, IF s = UDP THEN "done" ELSE "closed")
               /\ UNCHANGED handled
          ELSE /\ SetPc(s, "handler")
               /\ handled' = [handled EXCEPT ![s] = Append(@, res.msg)]
    /\ UNCHANGED <<appVars, fnVars, rtVars, cfgVars, ctxDone, sockVars, startVars, tcpPc, curRaw, netVars, accepted,
                   handlerRets, stopVars>>

\* A faulty processMessage, which waits with the call of the handler while
\* another source is inside one.
processMessage_OneAtATime(s) ==
    /\ PcOf(s) = "process"
    /\ LET res == Parsed[curRaw[s]]
       IN IF res.err # ""
          THEN /\ SetPc(s, "loop")
               /\ UNCHANGED handled
          ELSE /\ \A t \in Sources \ {s} : PcOf(t) # "handler"
               /\ SetPc(s, "handler")
               /\ handled' = [handled EXCEPT ![s] = Append(@, res.msg)]
    /\ UNCHANGED <<appVars, fnVars, rtVars, cfgVars, ctxDone, sockVars, startVars, tcpPc, curRaw, netVars, accepted,
                   handlerRets, stopVars>>

\* processMessage up to the call of the handler: a message Parse rejects is
\* logged and dropped.
processMessage(s) ==
    /\ PcOf(s) = "process"
    /\ LET res == Parsed[curRaw[s]]
       IN IF res.err # ""
          THEN /\ SetPc(s, "loop")
               /\ UNCHANGED handled
          ELSE /\ SetPc(s, "handler")
               /\ handled' = [handled EXCEPT ![s] = Append(@, res.msg)]
    /\ UNCHANGED <<appVars, fnVars, rtVars, cfgVars, ctxDone, sockVars, startVars, tcpPc, curRaw, netVars, accepted,
                   handlerRets, stopVars>>

\* A faulty processMessage, which on an error of the handler calls it again
\* with the same message.
handlerReturn_Retries(s) ==
    /\ PcOf(s) = "handler"
    /\ \E ret \in {"nil", "error"} :
          /\ handlerRets' = [handlerRets EXCEPT ![s] = Append(@, ret)]
          /\ IF ret = "error"
             THEN /\ SetPc(s, "handler")
                  /\ handled' = [handled EXCEPT ![s] = Append(@, Parsed[curRaw[s]].msg)]
             ELSE /\ SetPc(s, "loop")
                  /\ UNCHANGED handled
    /\ UNCHANGED <<appVars, fnVars, rtVars, cfgVars, ctxDone, sockVars, startVars, tcpPc, curRaw, netVars,
                   accepted, stopVars>>

\* The handler returns, nil or an error; processMessage logs the error and
\* returns to the loop that called it.
handlerReturn(s) ==
    /\ PcOf(s) = "handler"
    /\ \E ret \in {"nil", "error"} :
          handlerRets' = [handlerRets EXCEPT ![s] = Append(@, ret)]
    /\ SetPc(s, "loop")
    /\ UNCHANGED <<appVars, fnVars, rtVars, cfgVars, ctxDone, sockVars, startVars, tcpPc, curRaw, netVars,
                   accepted, handled, stopVars>>

\* Stop is called: c.cancel()
Stop ==
    /\ stopPc = "idle"
    /\ Len(stopRets) < env.stops
    /\ ctxDone' = TRUE
    /\ stopPc' = "closeUDP"
    /\ UNCHANGED <<appVars, fnVars, rtVars, cfgVars, sockVars, startVars, udpPc, tcpPc, connPc, curRaw, netVars,
                   histVars, stopRets>>

\* A faulty Stop, which leaves the UDP socket open.
Stop_CloseUDP_LeavesOpen ==
    /\ stopPc = "closeUDP"
    /\ stopPc' = "closeTCP"
    /\ UNCHANGED <<appVars, fnVars, rtVars, cfgVars, ctxDone, sockVars, startVars, udpPc, tcpPc, connPc, curRaw,
                   netVars, histVars, stopRets>>

\* Stop: if c.udpConn != nil, close it; closing a closed socket is an error,
\* which Stop returns.  The field is read without synchronisation with
\* startUDP's assignment.  startUDP writes the field, locks the logger and
\* then reads ctx.Done(); Stop closes ctx.Done() under the context's lock and
\* then reads the field: the lock operations between each write and the read
\* that follows it order the two, so Stop sees nil only if startUDP has yet to
\* see the cancellation, which is the choice the interleaving of
\* startUDP_Assign and Stop_CloseUDP makes.  The same holds of c.tcpListener.
Stop_CloseUDP ==
    /\ stopPc = "closeUDP"
    /\ IF udpConn /\ udpSock = "closed"
       THEN /\ stopPc' = "idle"
            /\ stopRets' = Append(stopRets, "failed to close UDP connection")
            /\ UNCHANGED udpSock
       ELSE /\ stopPc' = "closeTCP"
            /\ udpSock' = IF udpConn THEN "closed" ELSE udpSock
            /\ UNCHANGED stopRets
    /\ UNCHANGED <<appVars, fnVars, rtVars, cfgVars, ctxDone, udpConn, tcpListener, tcpSock, startVars, udpPc,
                   tcpPc, connPc, curRaw, netVars, histVars>>

\* Stop: if c.tcpListener != nil, close it; then return nil.
Stop_CloseTCP ==
    /\ stopPc = "closeTCP"
    /\ stopPc' = "idle"
    /\ IF tcpListener /\ tcpSock = "closed"
       THEN /\ stopRets' = Append(stopRets, "failed to close TCP listener")
            /\ UNCHANGED tcpSock
       ELSE /\ stopRets' = Append(stopRets, "nil")
            /\ tcpSock' = IF tcpListener THEN "closed" ELSE tcpSock
    /\ UNCHANGED <<appVars, fnVars, rtVars, cfgVars, ctxDone, udpConn, tcpListener, udpSock, startVars, udpPc,
                   tcpPc, connPc, curRaw, netVars, histVars>>

\* A datagram arrives at the bound socket.
SendDatagram ==
    /\ udpSock = "open"
    /\ udpSent < env.datagrams
    /\ \E d \in Datagrams : udpQueue' = Append(udpQueue, d)
    /\ udpSent' = udpSent + 1
    /\ UNCHANGED <<appVars, fnVars, rtVars, cfgVars, ctxDone, sockVars, startVars, udpPc, tcpPc, connPc, curRaw,
                   connState, connStream, sentLog, histVars, stopVars>>

\* A peer connects to the listener (the connections are numbered in the
\* order they are made).
PeerConnect(c) ==
    /\ tcpSock = "open"
    /\ c <= env.conns
    /\ connState[c] = "none"
    /\ \A d \in 1..(c - 1) : connState[d] # "none"
    /\ connState' = [connState EXCEPT ![c] = "open"]
    /\ UNCHANGED <<appVars, fnVars, rtVars, cfgVars, ctxDone, sockVars, startVars, udpPc, tcpPc, connPc, curRaw,
                   connStream, udpQueue, udpSent, sentLog, histVars, stopVars>>

\* A peer sends one frame on its connection.
PeerSend(c) ==
    /\ connState[c] = "open"
    /\ connPc[c] # "closed"
    /\ FramesSent < env.frames
    /\ \E f \in GoodFrames(framingMethod) \cup BadFrames(framingMethod) :
          /\ connStream' = [connStream EXCEPT ![c] = @ \o f.bytes]
          /\ sentLog' = [sentLog EXCEPT ![c] = Append(@, f)]
    /\ UNCHANGED <<appVars, fnVars, rtVars, cfgVars, ctxDone, sockVars, startVars, udpPc, tcpPc, connPc, curRaw,
                   connState, udpQueue, udpSent, histVars, stopVars>>

\* A peer closes its connection: the connStream ends after the bytes sent.
PeerClose(c) ==
    /\ connState[c] = "open"
    /\ connState' = [connState EXCEPT ![c] = "eof"]
    /\ UNCHANGED <<appVars, fnVars, rtVars, cfgVars, ctxDone, sockVars, startVars, udpPc, tcpPc, connPc, curRaw,
                   connStream, udpQueue, udpSent, sentLog, histVars, stopVars>>

\* A connection breaks: reads fail once the bytes that arrived are consumed.
PeerReset(c) ==
    /\ connState[c] = "open"
    /\ connState' = [connState EXCEPT ![c] = "reset"]
    /\ UNCHANGED <<appVars, fnVars, rtVars, cfgVars, ctxDone, sockVars, startVars, udpPc, tcpPc, connPc, curRaw,
                   connStream, udpQueue, udpSent, sentLog, histVars, stopVars>>

Next ==
    \/ Start
    \/ Start_Select
    \/ startUDP_Listen
    \/ startUDP_Assign
    \/ startUDP_Loop
    \/ startUDP_Read
    \/ startUDP_ReadError
    \/ startTCP_Listen
    \/ startTCP_Assign
    \/ startTCP_Loop
    \/ startTCP_Accept
    \/ startTCP_AcceptError
    \/ \E c \in Conns : handleTCPConnection_Loop(c)
    \/ \E c \in Conns : handleTCPConnection_Read(c)
    \/ \E s \in Sources : processMessage(s)
    \/ \E s \in Sources : handlerReturn(s)
    \/ Stop
    \/ Stop_CloseUDP
    \/ Stop_CloseTCP
    \/ SendDatagram
    \/ \E c \in Conns : PeerConnect(c)
    \/ \E c \in Conns : PeerSend(c)
    \/ \E c \in Conns : PeerClose(c)
    \/ \E c \in Conns : PeerReset(c)

\* ------------------------------------------------- the framing round trip

\* Bounds of the round trip: the messages written and their total length.
MaxMsgs == 3
MaxBytes == 3
\* The maximum size given to SetMaxSize.
SmallMaxSize == 2

\* NewReader's default maximum size.
DefaultMaxSize == 8192

\* The bytes of the messages written: a digit, the two delimiters, the bytes
\* the non-transparent reader trims, and an ordinary byte.
FrameAlphabet == {"1", SP, LF, CR, NUL, "a"}

RECURSIVE SeqsUpTo(_, _)
SeqsUpTo(S, n) ==
    IF n = 0 THEN {<<>>}
    ELSE LET shorter == SeqsUpTo(S, n - 1)
         IN shorter \cup {Append(s, b) : s \in {t \in shorter : Len(t) = n - 1}, b \in S}

RECURSIVE TotalLen(_)
TotalLen(ms) == IF Len(ms) = 0 THEN 0 ELSE Len(ms[1]) + TotalLen(Tail(ms))

RtInit ==
    /\ rtMethod \in FramingMethod
    /\ rtMaxSize \in {SmallMaxSize, DefaultMaxSize}
    /\ rtBuf = <<>>
    /\ rtWritten = <<>>
    /\ rtResults = <<>>
    /\ rtPhase = "write"

\* writer.WriteMessage(m)
RtWrite ==
    /\ rtPhase = "write"
    /\ Len(rtWritten) < MaxMsgs
    /\ \E m \in SeqsUpTo(FrameAlphabet, MaxBytes - TotalLen(rtWritten)) :
          /\ rtBuf' = rtBuf \o WriteMessage(rtMethod, m)
          /\ rtWritten' = Append(rtWritten, m)
    /\ UNCHANGED <<appVars, fnVars, colVars, rtMethod, rtMaxSize, rtResults, rtPhase>>

\* The writes are over; the reader is created on the buffer.
RtNewReader ==
    /\ rtPhase = "write"
    /\ rtPhase' = "read"
    /\ UNCHANGED <<appVars, fnVars, colVars, rtMethod, rtMaxSize, rtBuf, rtWritten, rtResults>>

\* reader.ReadMessage(), until the first error and at most once past the
\* last message.  The end of a bytes.Buffer is io.EOF.
RtRead ==
    /\ rtPhase = "read"
    /\ Len(rtResults) <= Len(rtWritten)
    /\ \A k \in 1..Len(rtResults) : rtResults[k].status = "ok"
    /\ LET out == ReadMessage(rtMethod, rtBuf, "eof", rtMaxSize)
       IN /\ rtResults' = Append(rtResults, [status |-> out.status, msg |-> out.msg])
          /\ rtBuf' = out.rest
    /\ UNCHANGED <<appVars, fnVars, colVars, rtMethod, rtMaxSize, rtWritten, rtPhase>>

NextFraming == RtWrite \/ RtNewReader \/ RtRead

\* The round trip runs with no collector, and the collector with no round trip.
RtIdle ==
    /\ rtMethod = OctetCounting
    /\ rtMaxSize = DefaultMaxSize
    /\ rtBuf = <<>>
    /\ rtWritten = <<>>
    /\ rtResults = <<>>
    /\ rtPhase = "idle"

ColIdle == New("udp", OctetCounting, Env(0, 0, 0, 0))

\* No package function is called.
FnIdle ==
    /\ fnName = "none"
    /\ fnIn = <<>>
    /\ fnPc = "idle"
    /\ fnOut = <<>>

\* No server runs around the collector.
AppIdle ==
    /\ now = 0
    /\ enabled = FALSE
    /\ users = {}
    /\ sessions = {}
    /\ issued = {}
    /\ deleted = {}
    /\ authCall = <<>>
    /\ storeKind = "memory"
    /\ messages = <<>>
    /\ storeCall = <<>>

Init ==
    /\ \E cfg \in Configurations, f \in FramingMethod : New(cfg[1], f, cfg[2])
    /\ RtIdle
    /\ FnIdle
    /\ AppIdle

Spec == Init /\ [][Next]_vars

\* The scheduler runs every goroutine that can take a step, a blocked call
\* returns once it can, and the handler returns.  Nothing obliges the
\* environment to call Start or Stop, a peer to connect, send, close or
\* break, or a transient error to happen.
Fairness ==
    /\ WF_vars(Start_Select)
    /\ WF_vars(startUDP_Listen)
    /\ WF_vars(startUDP_Assign)
    /\ WF_vars(startUDP_Loop)
    /\ WF_vars(startUDP_Read)
    /\ WF_vars(startTCP_Listen)
    /\ WF_vars(startTCP_Assign)
    /\ WF_vars(startTCP_Loop)
    /\ WF_vars(startTCP_Accept)
    /\ \A c \in Conns : WF_vars(handleTCPConnection_Loop(c))
    /\ \A c \in Conns : WF_vars(handleTCPConnection_Read(c))
    /\ \A s \in Sources : WF_vars(processMessage(s))
    /\ \A s \in Sources : WF_vars(handlerReturn(s))
    /\ WF_vars(Stop_CloseUDP)
    /\ WF_vars(Stop_CloseTCP)

\* The configurations of the runs under fairness: every mode with one call
\* of Stop, beside a datagram, a connection with a frame, or both paths idle.
FairConfigurations ==
    {<<"udp", Env(0, 0, 1, 1)>>,
     <<"tcp", Env(1, 1, 0, 1)>>,
     <<"both", Env(1, 0, 0, 1)>>,
     <<"ftp", Env(0, 0, 0, 1)>>}

InitFair ==
    /\ \E cfg \in FairConfigurations, f \in FramingMethod : New(cfg[1], f, cfg[2])
    /\ RtIdle
    /\ FnIdle
    /\ AppIdle

FairSpec == InitFair /\ [][Next]_vars /\ Fairness

InitFraming == RtInit /\ ColIdle /\ FnIdle /\ AppIdle

SpecFraming == InitFraming /\ [][NextFraming]_vars

\* ------------------------------------- calls of the framing package

\* The longest run of digits at the head of a stream given to
\* AutoDetectFraming.
MaxDigits == 10

RECURSIVE Repeat(_, _)
Repeat(b, n) == IF n = 0 THEN <<>> ELSE <<b>> \o Repeat(b, n - 1)

\* The length prefixes of the streams given to a Reader: none, numbers around
\* the maximum sizes, a negative number, and what is no number.
LengthPrefixes ==
    {<<>>, <<"0">>, <<"1">>, <<"2">>, <<"3">>, <<"0", "3">>, <<"-", "1">>, <<"x">>,
     <<LF, "3">>, Itoa(DefaultMaxSize), Itoa(DefaultMaxSize + 1)}

\* The streams given to a Reader (TestOctetCountingReader,
\* TestNonTransparentReader, TestMaxSize): some bytes, alone or after a
\* length prefix and a space.
ReaderStreams ==
    LET bodies == SeqsUpTo(FrameAlphabet, MaxBytes)
    IN bodies \cup {p \o <<SP>> \o b : p \in LengthPrefixes, b \in bodies}

ReaderInputs ==
    [method : FramingMethod, maxSize : {SmallMaxSize, DefaultMaxSize},
     stream : ReaderStreams, st : StreamStates]

\* The streams given to AutoDetectFraming (TestAutoDetectFraming): a run of
\* digits, then some bytes.
DetectStreams ==
    {Repeat(d, n) \o t : d \in {"0", "7"}, n \in 0..MaxDigits,
                          t \in SeqsUpTo({SP, "<", "a", "7"}, 2)}

DetectInputs == [stream : DetectStreams, st : StreamStates]

InitFramingCalls ==
    /\ \/ fnName = "ReadMessage" /\ fnIn \in ReaderInputs
       \/ fnName = "AutoDetectFraming" /\ fnIn \in DetectInputs
    /\ fnPc = "called"
    /\ fnOut = <<>>
    /\ RtIdle
    /\ ColIdle
    /\ AppIdle

\* NewReader(r, method), SetMaxSize(maxSize), ReadMessage() returns.
CallReadMessage ==
    /\ fnPc = "called"
    /\ fnName = "ReadMessage"
    /\ LET out == ReadMessage(fnIn.method, fnIn.stream, fnIn.st, fnIn.maxSize)
       IN /\ out.status # "block"
          /\ fnOut' = out
    /\ fnPc' = "returned"
    /\ UNCHANGED <<appVars, fnName, fnIn, rtVars, colVars>>

\* AutoDetectFraming(bufio.NewReader(r)) returns.
CallAutoDetectFraming ==
    /\ fnPc = "called"
    /\ fnName = "AutoDetectFraming"
    /\ LET out == AutoDetectFraming(fnIn.stream, fnIn.st)
       IN /\ out.status # "block"
          /\ fnOut' = out
    /\ fnPc' = "returned"
    /\ UNCHANGED <<appVars, fnName, fnIn, rtVars, colVars>>

NextFramingCalls == CallReadMessage \/ CallAutoDetectFraming

SpecFramingCalls == InitFramingCalls /\ [][NextFramingCalls]_vars

\* ------------------------------------- calls of the parser package

\* What the inputs begin with: a priority bracket, well formed or not, or none.
PriorityHeads ==
    {<<"<", "3", "4", ">">>, <<"<", "0", ">">>, <<"<", "8", ">">>, <<"<", "1", "9", "1", ">">>,
     <<"<", "-", "9", ">">>, <<"<", "+", "5", ">">>, <<"<", ">">>, <<"<", "x", ">">>,
     <<"3", "4", ">">>, <<"<", "3", "4">>, <<"x", "<", "3", "4", ">">>, <<>>}

\* The 15 bytes where an RFC 3164 message has its timestamp: one of each
\* layout, one with a fraction of a second, the last day of a leap February,
\* and some that no layout parses.
Timestamps3164 ==
    {<<"O", "c", "t", SP, "1", "1", SP, "2", "2", ":", "1", "4", ":", "1", "5">>,
     <<"O", "c", "t", SP, SP, "1", SP, "2", "2", ":", "1", "4", ":", "1", "5">>,
     <<"o", "c", "t", SP, "1", SP, "2", ":", "1", "4", ":", "1", "5", ".", "5">>,
     <<"F", "e", "b", SP, "2", "9", SP, "2", "3", ":", "5", "9", ":", "5", "9">>,
     <<"F", "e", "b", SP, "3", "0", SP, "2", "2", ":", "1", "4", ":", "1", "5">>,
     <<"O", "c", "t", SP, "1", "1", SP, "2", "4", ":", "1", "4", ":", "1", "5">>,
     <<"2", "0", "2", "4", "-", "1", "0", "-", "1", "1", "T", "2", "2", ":", "1">>}

\* What follows the timestamp: the hostname, the tag with or without a PID,
\* the message; or less.
Rests3164 ==
    {<<SP, "h", SP, "t", ":", SP, "m">>,
     <<SP, "h", SP, "t", "[", "1", "2", "]", ":", SP, "m">>, <<SP, "h", SP, "t", SP, "m">>,
     <<SP, "h", SP, "t">>, <<SP, "h">>, <<>>,
     <<SP, "h", SP, "t", "[", "x", "]", ":", SP, "m">>, <<SP, "h", SP, SP, "t", ":", "m", LF>>}

\* The TIMESTAMP field of an RFC 5424 message: absent, in UTC, with an
\* offset, and some that time.Parse rejects.
Timestamps5424 ==
    {<<"-">>,
     <<"2", "0", "2", "4", "-", "1", "0", "-", "1", "1", "T", "2", "2", ":", "1", "4", ":",
       "1", "5", "Z">>,
     <<"2", "0", "2", "4", "-", "1", "0", "-", "1", "1", "T", "2", "2", ":", "1", "4", ":",
       "1", "5", ".", "0", "0", "3", "+", "0", "2", ":", "0", "0">>,
     <<"2", "0", "2", "4", "-", "0", "2", "-", "2", "9", "T", "2", "3", ":", "5", "9", ":",
       "5", "9", "-", "0", "5", ":", "3", "0">>,
     <<"2", "0", "2", "4", "-", "1", "0", "-", "1", "1", "T", "2", "2", ":", "1", "4", ":",
       "1", "5", "+", "0", "0", ":", "0", "0">>,
     <<"2", "0", "2", "3", "-", "0", "2", "-", "2", "9", "T", "2", "2", ":", "1", "4", ":",
       "1", "5", "Z">>,
     <<"O", "c", "t">>}

\* What follows the priority bracket of an RFC 5424 message: the VERSION and
\* a white space; or less.
Versions ==
    {<<"1", SP>>, <<"1", "2", SP>>, <<"1", TAB>>, <<"1">>, <<"x", SP>>}

\* HOSTNAME, APP-NAME, PROCID and MSGID; or fewer fields.
Headers5424 ==
    {<<SP, "h", SP, "a", SP, "p", SP, "i", SP>>, <<SP, "-", SP, "-", SP, "-", SP, "-", SP>>,
     <<SP, "h", SP, "a", SP>>, <<SP, "h", SP, "a", SP, "7", "7", SP, "-", SP>>}

\* Structured-data elements: plain, with a parameter, with an escaped ']' in
\* a value, and with a nested bracket.
Elements ==
    {<<"[", "a", "]">>, <<"[", "a", SP, "b", "=", "\"", "c", "\"", "]">>,
     <<"[", "a", SP, "b", "=", "\"", "\\", "]", "\"", "]">>, <<"[", "a", "[", "b", "]", "]">>}

\* What follows the structured data: the message text; or none.
Texts ==
    {<<>>, <<"m">>, <<SP, "m", SP>>, <<"-", SP, "m">>, <<"-">>, <<"[", "a">>,
     <<"m", SP, "[", "a", "]">>}

\* The structured-data elements at the head of the seventh field, at most.
MaxElements == 2

\* The zones a machine may be in, in minutes east of UTC.
LocalOffsets == {0, 60}

RECURSIVE Concat(_)
Concat(ss) == IF Len(ss) = 0 THEN <<>> ELSE ss[1] \o Concat(Tail(ss))

\* What follows a priority bracket: an RFC 3164 message; an RFC 5424 header
\* with no structured data; or a plain RFC 5424 header with structured-data
\* elements and a text.
Bodies ==
    {ts \o r : ts \in Timestamps3164, r \in Rests3164}
    \cup {v \o ts \o h \o <<"-">> : v \in Versions, ts \in Timestamps5424, h \in Headers5424}
    \cup {<<"1", SP, "-", SP, "h", SP, "a", SP, "p", SP, "i", SP>> \o Concat(es) \o t :
             es \in SeqsUpTo(Elements, MaxElements), t \in Texts}

ParserInputs ==
    [raw : {h \o b : h \in PriorityHeads, b \in Bodies \cup {<<>>}}, local : LocalOffsets]

InitParserCalls ==
    /\ fnName \in {"Parse", "ParseRFC3164", "ParseRFC5424"}
    /\ fnIn \in ParserInputs
    /\ fnPc = "called"
    /\ fnOut = <<>>
    /\ RtIdle
    /\ ColIdle
    /\ AppIdle

\* parser.Parse(raw) returns.
CallParse ==
    /\ fnPc = "called"
    /\ fnName = "Parse"
    /\ fnOut' = Parse(fnIn.raw)
    /\ fnPc' = "returned"
    /\ UNCHANGED <<appVars, fnName, fnIn, rtVars, colVars>>

\* parser.ParseRFC3164(raw) returns.
CallParseRFC3164 ==
    /\ fnPc = "called"
    /\ fnName = "ParseRFC3164"
    /\ fnOut' = ParseRFC3164(fnIn.raw)
    /\ fnPc' = "returned"
    /\ UNCHANGED <<appVars, fnName, fnIn, rtVars, colVars>>

\* parser.ParseRFC5424(raw) returns.
CallParseRFC5424 ==
    /\ fnPc = "called"
    /\ fnName = "ParseRFC5424"
    /\ fnOut' = ParseRFC5424(fnIn.raw)
    /\ fnPc' = "returned"
    /\ UNCHANGED <<appVars, fnName, fnIn, rtVars, colVars>>

NextParserCalls == CallParse \/ CallParseRFC3164 \/ CallParseRFC5424

SpecParserCalls == InitParserCalls /\ [][NextParserCalls]_vars

\* ------------------------------------------------- the clock of the parser

\* A time.Time: the instant, in seconds since 2000-01-01T00:00:00Z and
\* nanoseconds within the second, and the zone its fields are presented in,
\* with the minutes that zone is east of UTC at that instant.  The zone of the
\* machine is taken to keep one offset all year.
Time(unix, nsec, location, offset) ==
    [Unix |-> unix, Nsec |-> nsec, Location |-> location, Offset |-> offset]

\* The days from 2000-01-01 to the first day of a year.
daysBeforeYear(year) ==
    LET y == year - 1
    IN 365 * (year - 2000) + (y \div 4 - y \div 100 + y \div 400) - (499 - 19 + 4)

\* The days from the first day of a year to the first day of its month.
RECURSIVE daysBeforeMonth(_, _)
daysBeforeMonth(month, year) ==
    IF month <= 1 THEN 0
    ELSE daysBeforeMonth(month - 1, year) + daysIn(month - 1, year)

\* time.Date(year, month, day, hour, min, sec, nsec, loc), for a month in
\* 1..12: a day beyond the end of the month runs into the next month.
Date(year, month, day, hour, minute, second, nsec, location, offset) ==
    Time((daysBeforeYear(year) + daysBeforeMonth(month, year) + day - 1) * 86400
             + hour * 3600 + minute * 60 + second - offset * 60,
         nsec, location, offset)

\* The years the calendar fields of the model's instants lie in.
CalendarYears == 2020..2030

\* The fields of a time in its zone: Time.Year(), Month(), Day(), Hour(),
\* Minute(), Second().
Clock(t) ==
    LET wall == t.Unix + t.Offset * 60
        days == wall \div 86400
        secs == wall % 86400
        year == CHOOSE y \in CalendarYears :
                    daysBeforeYear(y) <= days /\ days < daysBeforeYear(y + 1)
        yday == days - daysBeforeYear(year)
        month == CHOOSE m \in 1..12 :
                     /\ daysBeforeMonth(m, year) <= yday
                     /\ yday < daysBeforeMonth(m, year) + daysIn(m, year)
    IN [year |-> year, month |-> month, day |-> yday - daysBeforeMonth(month, year) + 1,
        hour |-> secs \div 3600, minute |-> (secs % 3600) \div 60, second |-> secs % 60]

\* t.After(u)
After(t, u) == t.Unix > u.Unix \/ (t.Unix = u.Unix /\ t.Nsec > u.Nsec)

\* t.Add(d), for a duration of whole seconds
Add(t, seconds) == [t EXCEPT !.Unix = @ + seconds]

\* t.AddDate(years, 0, 0): time.Date on the fields of t, in the zone of t.
AddDate(t, years) ==
    LET c == Clock(t)
    IN Date(c.year + years, c.month, c.day, c.hour, c.minute, c.second, t.Nsec,
            t.Location, t.Offset)

\* A faulty UTC(), which keeps the fields and moves the instant.
UTC_KeepsFields(t) == Time(t.Unix + t.Offset * 60, t.Nsec, LocUTC, 0)

\* t.UTC(): the same instant, presented in UTC.
UTC(t) == Time(t.Unix, t.Nsec, LocUTC, 0)

\* time.Now() on a machine whose zone is local minutes east of UTC.
Now(unix, local) == Time(unix, 0, LocLocal, local)

\* The fields time.ParseInLocation returns under the first of
\* rfc3164TimeFormats that parses the 15 bytes.
parseRFC3164Time(timestampStr) ==
    IF parseTimestamp(timestampStr, FALSE).ok THEN parseTimestamp(timestampStr, FALSE)
    ELSE parseTimestamp(timestampStr, TRUE)

\* A faulty ParseRFC3164, which never takes a timestamp for one of last year.
lastYearIfFuture_Never(timestamp, tnow) == timestamp

\* ParseRFC3164: "If timestamp is more than 24 hours in the future, it's
\* probably from last year".
lastYearIfFuture(timestamp, tnow) ==
    IF After(timestamp, Add(tnow, 24 * 3600)) THEN AddDate(timestamp, -1) ELSE timestamp

\* A faulty ParseRFC3164, which leaves the zero time.Time (here the first
\* instant of the model) where no format parses the timestamp.
timeRFC3164_NoFallBack(timestampStr, tnow) ==
    LET parsed == parseRFC3164Time(timestampStr)
    IN IF parsed.ok
       THEN UTC(lastYearIfFuture(
                Date(Clock(tnow).year, parsed.month, parsed.day, parsed.hour, parsed.minute,
                     parsed.second, parsed.nsec, tnow.Location, tnow.Offset), tnow))
       ELSE Time(0, 0, LocUTC, 0)

\* ParseRFC3164, from the loop over rfc3164TimeFormats to msg.Timestamp: the
\* fields parsed, in the current year and the zone of the machine, moved a
\* year back if more than 24 hours ahead, and presented in UTC; or time.Now()
\* when no format parses the 15 bytes.
timeRFC3164(timestampStr, tnow) ==
    LET parsed == parseRFC3164Time(timestampStr)
    IN IF parsed.ok
       THEN UTC(lastYearIfFuture(
                Date(Clock(tnow).year, parsed.month, parsed.day, parsed.hour, parsed.minute,
                     parsed.second, parsed.nsec, tnow.Location, tnow.Offset), tnow))
       ELSE tnow

\* ParseRFC3164(raw) where time.Now() returns now: the message of
\* ParseRFC3164, whose Timestamp carries the instant beside the zone.
ParseRFC3164At(raw, tnow) ==
    LET res == ParseRFC3164(raw)
        rest == TrimSpace(Slice(raw, IndexByte(raw, ">") + 1, Len(raw)))
    IN IF res.err # "" THEN res
       ELSE [res EXCEPT !.msg.Timestamp = timeRFC3164(Slice(rest, 1, 15), tnow)]

\* The 15 bytes of the timestamps parsed at a known time: those of
\* Timestamps3164, and the first and the last hour of a year.
ClockTimestamps ==
    Timestamps3164
    \cup {<<"J", "a", "n", SP, SP, "1", SP, "0", "0", ":", "3", "0", ":", "0", "0">>,
          <<"D", "e", "c", SP, "3", "1", SP, "2", "3", ":", "3", "0", ":", "0", "0">>}

\* The instants of parsing, in UTC: 24 hours and a second, 24 hours, and less
\* before 22:14:15 on Oct 11; the days around the end of a year; the days
\* after a Feb 29, and the end of a February that has none.
ClockInstants ==
    {Date(2024, 10, 10, 22, 14, 14, 0, LocUTC, 0).Unix,
     Date(2024, 10, 10, 22, 14, 15, 0, LocUTC, 0).Unix,
     Date(2024, 10, 12, 0, 0, 0, 0, LocUTC, 0).Unix,
     Date(2024, 12, 31, 23, 30, 0, 0, LocUTC, 0).Unix,
     Date(2025, 1, 1, 0, 30, 0, 0, LocUTC, 0).Unix,
     Date(2024, 3, 5, 12, 0, 0, 0, LocUTC, 0).Unix,
     Date(2025, 2, 28, 23, 0, 0, 0, LocUTC, 0).Unix}

\* The zones of the machines that parse, in minutes east of UTC.
ClockOffsets == LocalOffsets \cup {-300}

ClockInputs ==
    [raw : {<<"<", "3", "4", ">">> \o ts \o r :
               ts \in ClockTimestamps,
               r \in {<<SP, "h", SP, "t", ":", SP, "m">>, <<SP, "h">>}},
     local : ClockOffsets,
     unix : ClockInstants]

InitClockCalls ==
    /\ fnName = "ParseRFC3164"
    /\ fnIn \in ClockInputs
    /\ fnPc = "called"
    /\ fnOut = <<>>
    /\ RtIdle
    /\ ColIdle
    /\ AppIdle

\* parser.ParseRFC3164(raw) returns, on a machine in the zone fnIn.local
\* whose clock reads fnIn.unix.
CallParseRFC3164At ==
    /\ fnPc = "called"
    /\ fnName = "ParseRFC3164"
    /\ fnOut' = ParseRFC3164At(fnIn.raw, Now(fnIn.unix, fnIn.local))
    /\ fnPc' = "returned"
    /\ UNCHANGED <<appVars, fnName, fnIn, rtVars, colVars>>

NextClockCalls == CallParseRFC3164At

SpecClockCalls == InitClockCalls /\ [][NextClockCalls]_vars

\* ------------------------------------------------------ the AuthManager

\* Bounds: the hours the clock runs, the hours between two readings of it,
\* and the session tokens generateSessionToken returns in all.
MaxTime == 48
TickHours == 24
MaxSessions == 2

\* time.Now().Add(24 * time.Hour), in hours
SessionTTL == 24

\* The users of the -auth-users example (admin:password123,user:pass456).
ConfiguredUsers == {<<"admin", "password123">>, <<"user", "pass456">>}

\* What generateAPIToken and generateSessionToken return: 32 random bytes,
\* encoded.  A value returned once is taken never to be returned again, and
\* no client to present a session token before it was returned: the tokens
\* are named in the order they are returned, and a token a client made up is
\* "forged".
APITokens == <<"k1", "k2">>
TokenNames == <<"s1", "s2", "s3", "s4">>

\* bcrypt.GenerateFromPassword: a hash CompareHashAndPassword accepts for the
\* password it was made from and for no other.
Hash(password) == [bcrypt |-> password]

\* A Go string of the HTTP layer is a sequence of its pieces: a word, a space,
\* a colon.  strings.SplitN(s, sep, n); strings.Split is SplitN with n = -1.
RECURSIVE SplitSep(_, _, _)
SplitSep(s, sep, n) ==
    LET i == IndexByte(s, sep)
    IN IF n = 1 \/ i = 0 THEN <<s>>
       ELSE <<Slice(s, 1, i - 1)>> \o SplitSep(Slice(s, i + 1, Len(s)), sep, n - 1)

\* base64.StdEncoding.DecodeString on the payloads of the model; any other
\* string is no base64.
DecodeString(s) ==
    IF s = <<"YWRtaW46cGFzc3dvcmQxMjM=">>
    THEN [ok |-> TRUE, payload |-> <<"admin", ":", "password123">>]
    ELSE IF s = <<"YWRtaW46cGFzczQ1Ng==">>
    THEN [ok |-> TRUE, payload |-> <<"admin", ":", "pass456">>]
    ELSE IF s = <<"dXNlcjpwYXNzNDU2">>
    THEN [ok |-> TRUE, payload |-> <<"user", ":", "pass456">>]
    ELSE IF s = <<"YWRtaW4=">>
    THEN [ok |-> TRUE, payload |-> <<"admin">>]
    ELSE [ok |-> FALSE, payload |-> <<>>]

\* A call, with the time it was made at and its result, as authCall and
\* storeCall keep it.
Called(op, arg, ret) == [op |-> op, arg |-> arg, ret |-> ret, at |-> now]

\* NewAuthManager(enabled)
NewAuthManager(e) ==
    /\ enabled = e
    /\ users = {}
    /\ sessions = {}
    /\ issued = {}
    /\ deleted = {}
    /\ authCall = Called("NewAuthManager", e, "")

\* AuthManager.AddUser(username, password); the password is a single word.
AddUser(username, password) ==
    /\ IF \E u \in users : u.Username = username
       THEN /\ authCall' = Called("AddUser", username, "user already exists")
            /\ UNCHANGED users
       ELSE /\ users' = users \cup {[Username |-> username,
                                       PasswordHash |-> Hash(<<password>>),
                                       APIToken |-> APITokens[Cardinality(users) + 1]]}
            /\ authCall' = Called("AddUser", username, "")
    /\ UNCHANGED <<now, enabled, sessions, issued, deleted, storeVars, fnVars, rtVars, colVars>>

\* AuthManager.VerifyPassword(username, password), on Go strings
VerifyPassword(username, password) ==
    \E u \in users : <<u.Username>> = username /\ u.PasswordHash = Hash(password)

\* AuthManager.VerifyAPIToken(token), on a Go string
VerifyAPIToken(token) ==
    IF \E u \in users : <<u.APIToken>> = token
    THEN [username |-> (CHOOSE u \in users : <<u.APIToken>> = token).Username, valid |-> TRUE]
    ELSE [username |-> "", valid |-> FALSE]

\* AuthManager.CreateSession(username): the outcomes it can have, each with
\* what it returns and what it leaves in am.sessions; generateSessionToken
\* may fail, and returns at most MaxSessions tokens.
CreateSession(username) ==
    LET failed(e) == [token |-> "", err |-> e, sessions |-> sessions, issued |-> issued]
        t == TokenNames[Cardinality(issued) + 1]
        created == [token |-> t, err |-> "",
                    sessions |-> {s \in sessions : s.Token # t}
                                    \cup {[Token |-> t, Username |-> username,
                                           ExpiresAt |-> now + SessionTTL]},
                    issued |-> issued \cup {[token |-> t, user |-> username, at |-> now]}]
    IN IF ~\E u \in users : u.Username = username THEN {failed("user not found")}
       ELSE IF Cardinality(issued) < MaxSessions THEN {failed("rand.Read failed"), created}
       ELSE {failed("rand.Read failed")}

\* A call of AuthManager.CreateSession(username).
CallCreateSession(username) ==
    /\ \E out \in CreateSession(username) :
          /\ sessions' = out.sessions
          /\ issued' = out.issued
          /\ authCall' = Called("CreateSession", username, [token |-> out.token, err |-> out.err])
    /\ UNCHANGED <<now, enabled, users, deleted, storeVars, fnVars, rtVars, colVars>>

\* A faulty ValidateSession, which does not look at ExpiresAt.
ValidateSession_NoExpiry(token) ==
    IF \E s \in sessions : s.Token = token
    THEN [username |-> (CHOOSE s \in sessions : s.Token = token).Username, valid |-> TRUE]
    ELSE [username |-> "", valid |-> FALSE]

\* AuthManager.ValidateSession(token)
ValidateSession(token) ==
    IF \E s \in sessions : s.Token = token /\ ~(now > s.ExpiresAt)
    THEN [username |-> (CHOOSE s \in sessions : s.Token = token).Username, valid |-> TRUE]
    ELSE [username |-> "", valid |-> FALSE]

\* The session tokens a client can present, those returned so far and one it
\* made up; and "", for a request that carries no cookie.
Cookies == {i.token : i \in issued} \cup {"forged", ""}

\* A call of AuthManager.ValidateSession(token).
CallValidateSession(token) ==
    /\ authCall' = Called("ValidateSession", token, ValidateSession(token))
    /\ UNCHANGED <<now, enabled, users, sessions, issued, deleted, storeVars, fnVars, rtVars,
                   colVars>>

\* A faulty DeleteSession, which deletes nothing.
DeleteSession_Keeps(token) == sessions

\* AuthManager.DeleteSession(token): am.sessions after it
DeleteSession(token) == {s \in sessions : s.Token # token}

\* AuthManager.CleanupExpiredSessions(): am.sessions after it
CleanupExpiredSessions == {s \in sessions : ~(now > s.ExpiresAt)}

\* The ticker of startSessionCleanup fires.
startSessionCleanup ==
    /\ sessions' = CleanupExpiredSessions
    /\ authCall' = Called("CleanupExpiredSessions", "", "")
    /\ UNCHANGED <<now, enabled, users, issued, deleted, storeVars, fnVars, rtVars, colVars>>

\* The login requests of the model, each a method and a body: the
\* credentials of a user, a wrong password, an unknown user, and a body that
\* is no JSON.
LoginRequests ==
    {<<m, [valid |-> TRUE, Username |-> c[1], Password |-> c[2]]>> :
        m \in {"POST"},
        c \in ConfiguredUsers \cup {<<"admin", "pass456">>, <<"guest", "password123">>}}
    \cup {<<m, [valid |-> FALSE, Username |-> "", Password |-> ""]>> : m \in {"POST", "GET"}}

\* handleLogin
handleLogin(method, body) ==
    LET refuse(status) ==
            /\ authCall' = Called("handleLogin", body, [status |-> status, cookie |-> ""])
            /\ UNCHANGED <<sessions, issued>>
    IN /\ IF method # "POST" THEN refuse("405")
          ELSE IF ~enabled THEN refuse("501")
          ELSE IF ~body.valid THEN refuse("400")
          ELSE IF ~VerifyPassword(<<body.Username>>, <<body.Password>>) THEN refuse("401")
          ELSE \E out \in CreateSession(body.Username) :
                  /\ sessions' = out.sessions
                  /\ issued' = out.issued
                  /\ authCall' = Called("handleLogin", body,
                                        IF out.err # "" THEN [status |-> "500", cookie |-> ""]
                                        ELSE [status |-> "200", cookie |-> out.token])
       /\ UNCHANGED <<now, enabled, users, deleted, storeVars, fnVars, rtVars, colVars>>

\* handleLogout
handleLogout(method, cookie) ==
    /\ IF method # "POST"
       THEN /\ authCall' = Called("handleLogout", cookie, [status |-> "405"])
            /\ UNCHANGED <<sessions, deleted>>
       ELSE /\ authCall' = Called("handleLogout", cookie, [status |-> "200"])
            /\ IF cookie # ""
               THEN /\ sessions' = DeleteSession(cookie)
                    /\ deleted' = deleted \cup {cookie}
               ELSE UNCHANGED <<sessions, deleted>>
    /\ UNCHANGED <<now, enabled, users, issued, storeVars, fnVars, rtVars, colVars>>

\* The requests to a protected endpoint.  The Authorization header: none; a
\* Bearer token, of a user or of none, or written with two spaces or in lower
\* case; Basic credentials, right, wrong, without a colon, or no base64.  A
\* request has one of the headers and no cookie, or a cookie and no header or
\* a Bearer token of no user.
Requests ==
    LET Authorizations ==
            {<<>>, <<"Bearer", SP, SP, "k1">>, <<"bearer", SP, "k1">>}
            \cup {<<"Bearer", SP, k>> : k \in {"k1", "k2", "forged"}}
            \cup {<<"Basic", SP, c>> :
                     c \in {"YWRtaW46cGFzc3dvcmQxMjM=", "YWRtaW46cGFzczQ1Ng==",
                            "dXNlcjpwYXNzNDU2", "YWRtaW4=", "%%%"}}
    IN {r \in [Authorization : Authorizations, cookie : Cookies] :
           r.cookie = "" \/ r.Authorization \in {<<>>, <<"Bearer", SP, "forged">>}}

\* next.ServeHTTP(w, r), after r.Header.Set("X-Username", username)
Passed(username) == [status |-> "next", next |-> TRUE, username |-> username]

\* http.Error(w, "Unauthorized", http.StatusUnauthorized)
Unauthorized == [status |-> "401", next |-> FALSE, username |-> ""]

\* A faulty Middleware, which takes any session cookie.
ServeHTTP_AnyCookie(r) ==
    IF ~enabled \/ r.cookie # "" THEN Passed("") ELSE Unauthorized

\* The handler AuthManager.Middleware(next) returns, on a request: whether it
\* calls next, with which X-Username, or answers 401.
ServeHTTP(r) ==
    LET parts == SplitSep(r.Authorization, SP, -1)
        token == VerifyAPIToken(parts[2])
        decoded == DecodeString(parts[2])
        credentials == SplitSep(decoded.payload, ":", 2)
        session == ValidateSession(r.cookie)
    IN IF ~enabled THEN Passed("")
       ELSE IF /\ r.Authorization # <<>>
               /\ Len(parts) = 2
               /\ parts[1] = <<"Bearer">>
               /\ token.valid
       THEN Passed(token.username)
       ELSE IF /\ r.Authorization # <<>>
               /\ Len(parts) = 2
               /\ parts[1] = <<"Basic">>
               /\ decoded.ok
               /\ Len(credentials) = 2
               /\ VerifyPassword(credentials[1], credentials[2])
       THEN Passed(credentials[1][1])
       ELSE IF r.cookie # "" /\ session.valid
       THEN Passed(session.username)
       ELSE Unauthorized

\* A request reaches a protected endpoint.
Middleware(r) ==
    /\ authCall' = Called("Middleware", r, ServeHTTP(r))
    /\ UNCHANGED <<now, enabled, users, sessions, issued, deleted, storeVars, fnVars, rtVars,
                   colVars>>

\* Time passes.
Tick ==
    /\ now + TickHours <= MaxTime
    /\ now' = now + TickHours
    /\ UNCHANGED <<authVars, storeVars, fnVars, rtVars, colVars>>

\* -------------------------------------------------------------- the Storage

\* Bound: the messages stored in all.
MaxStored == 3

\* NewMemoryStorage(), NewSQLiteStorage(dbPath)
NewStorage(kind) ==
    /\ storeKind = kind
    /\ messages = <<>>
    /\ storeCall = Called("NewStorage", kind, "")

\* Storage.Store(msg): the message is appended to s.messages, or becomes the
\* last row of syslog_messages unless db.Create fails.  Of a message the
\* model keeps the time its Timestamp stands for.
Store(msg) ==
    /\ Len(messages) < MaxStored
    /\ \/ /\ messages' = Append(messages, msg)
          /\ storeCall' = Called("Store", msg, "")
       \/ /\ storeKind = "sqlite"
          /\ storeCall' = Called("Store", msg, "failed to store message")
          /\ UNCHANGED messages
    /\ UNCHANGED <<now, storeKind, authVars, fnVars, rtVars, colVars>>

\* MemoryStorage.DeleteOlderThan(duration): the messages kept are those whose
\* Timestamp is after the cutoff time.
MemoryDeleteOlderThan(duration) ==
    LET cutoffTime == now - duration
    IN SelectSeq(messages, LAMBDA msg : msg.Timestamp > cutoffTime)

\* SQLiteStorage.DeleteOlderThan(duration): the rows deleted are those WHERE
\* timestamp < cutoffTime, compared as points in time.
SQLiteDeleteOlderThan(duration) ==
    LET cutoffTime == now - duration
    IN SelectSeq(messages, LAMBDA msg : ~(msg.Timestamp < cutoffTime))

\* Storage.DeleteOlderThan(duration) returns the number of messages deleted;
\* in SQLite the DELETE may fail, and so may the VACUUM after a deletion.
DeleteOlderThan(duration) ==
    LET kept == IF storeKind = "memory" THEN MemoryDeleteOlderThan(duration)
                ELSE SQLiteDeleteOlderThan(duration)
        n == Len(messages) - Len(kept)
        call(ms, d, err) == Called("DeleteOlderThan", duration,
                                   [before |-> messages, after |-> ms, deleted |-> d,
                                    err |-> err])
    IN /\ \/ /\ messages' = kept
             /\ storeCall' = call(kept, n, "")
          \/ /\ storeKind = "sqlite"
             /\ UNCHANGED messages
             /\ storeCall' = call(messages, 0, "failed to delete old messages")
          \/ /\ storeKind = "sqlite"
             /\ n > 0
             /\ messages' = kept
             /\ storeCall' = call(kept, n, "vacuum failed")
       /\ UNCHANGED <<now, storeKind, authVars, fnVars, rtVars, colVars>>

\* ----------------------------------------------------- runs of the server

InitAuth ==
    /\ now = 0
    /\ \E e \in BOOLEAN : NewAuthManager(e)
    /\ NewStorage("memory")
    /\ RtIdle
    /\ ColIdle
    /\ FnIdle

NextAuth ==
    \/ \E up \in ConfiguredUsers : AddUser(up[1], up[2])
    \/ \E up \in ConfiguredUsers : CallCreateSession(up[1])
    \/ \E t \in Cookies : CallValidateSession(t)
    \/ \E r \in LoginRequests : handleLogin(r[1], r[2])
    \/ \E m \in {"POST", "GET"}, c \in Cookies : handleLogout(m, c)
    \/ startSessionCleanup
    \/ \E r \in Requests : Middleware(r)
    \/ Tick

SpecAuth == InitAuth /\ [][NextAuth]_vars

InitStorage ==
    /\ now = 0
    /\ NewAuthManager(FALSE)
    /\ \E kind \in {"memory", "sqlite"} : NewStorage(kind)
    /\ RtIdle
    /\ ColIdle
    /\ FnIdle

NextStorage ==
    \/ \E t \in {0, TickHours, TickHours + 1} : Store([Timestamp |-> t])
    \/ \E d \in {0, TickHours} : DeleteOlderThan(d)
    \/ Tick

SpecStorage == InitStorage /\ [][NextStorage]_vars

\* ------------------------------------------------ claims on the round trip

Min(a, b) == IF a <= b THEN a ELSE b

\* A message the framing method can carry: within the reader's maximum size;
\* for octet counting not empty (the reader rejects a declared length of 0);
\* for non-transparent framing free of LF (the delimiter) and not ending in
\* CR or NUL (which the reader trims).
Carried(method, maxSize, m) ==
    /\ Len(m) <= maxSize
    /\ method = OctetCounting => Len(m) > 0
    /\ method = NonTransparent =>
          /\ \A i \in 1..Len(m) : m[i] # LF
          /\ Len(m) > 0 => m[Len(m)] \notin {CR, NUL}

AllCarried == \A i \in 1..Len(rtWritten) : Carried(rtMethod, rtMaxSize, rtWritten[i])

\* The reads made so far returned the messages written, one by one, with no error.
ReadsReturnWrites ==
    \A k \in 1..Min(Len(rtResults), Len(rtWritten)) :
        rtResults[k] = [status |-> "ok", msg |-> rtWritten[k]]

\* C2 as stated: for both framing methods, whenever every message written is
\* no longer than the reader's maximum size, the reads that follow the writes
\* return exactly the messages written, one by one, with no error.
C2_RoundTripAnyMessage ==
    (\A i \in 1..Len(rtWritten) : Len(rtWritten[i]) <= rtMaxSize) => ReadsReturnWrites

\* C2 as amended: the round trip returns exactly the messages written, one by
\* one and with no error, when every message is within the maximum size and
\* is, for octet counting, not empty and, for non-transparent framing, free
\* of LF and not ending in CR or NUL.
C2_RoundTripCarried == AllCarried => ReadsReturnWrites

\* Two carried messages, one of them of exactly the maximum size, written and
\* read back.
C2_Witness ==
    /\ AllCarried
    /\ Len(rtWritten) >= 2
    /\ Len(rtResults) = Len(rtWritten)
    /\ \E i \in 1..Len(rtWritten) : Len(rtWritten[i]) = rtMaxSize

RECURSIVE Encode(_, _)
Encode(method, ms) ==
    IF Len(ms) = 0 THEN <<>>
    ELSE WriteMessage(method, ms[1]) \o Encode(method, Tail(ms))

\* C6: when the messages pipelined on the stream are all well formed (carried
\* by the framing method), the k-th ReadMessage call returns the k-th message
\* and consumes exactly its frame: what is left unread is the frames of the
\* messages after the k-th, so none is skipped, duplicated or merged.
C6_PipelinedInOrder ==
    [][(AllCarried /\ Len(rtResults') = Len(rtResults) + 1
                   /\ Len(rtResults') <= Len(rtWritten))
        => /\ rtResults'[Len(rtResults')] =
                 [status |-> "ok", msg |-> rtWritten[Len(rtResults')]]
           /\ rtBuf' = Encode(rtMethod,
                              Slice(rtWritten, Len(rtResults') + 1, Len(rtWritten)))]_vars

\* Three well-formed messages pipelined, the third ReadMessage call done.
C6_Witness ==
    /\ AllCarried
    /\ Len(rtWritten) = 3
    /\ Len(rtResults) = 3
    /\ \A i \in 1..3 : Len(rtWritten[i]) > 0

\* --------------------------------------------------- claims on shutdown

\* C1 as stated: once the peer of an accepted connection has closed it, the
\* connection's task eventually stops reading, closes the connection and
\* terminates, under either framing method.
C1_PeerCloseEndsTask ==
    \A c \in Conns : (connPc[c] # "none" /\ connState[c] = "eof") ~> (connPc[c] = "closed")

\* A path of the configured mode failed to bind its socket: the collector
\* never ran.
ListenFailed ==
    \/ udpPc = "done" /\ udpSock = "none"
    \/ tcpPc = "done" /\ tcpSock = "none"

\* C3: in the modes udp, tcp and both and in every interleaving of Start and
\* Stop, once Stop has been called a Start that was called eventually returns;
\* and a Start that returns on a collector that ran (its sockets were bound)
\* returns after Stop was called and returns no error: the read or accept
\* error the shutdown causes is not reported.
C3_StopEndsStart ==
    /\ (protocol \in {"udp", "tcp", "both"} /\ startPc # "idle" /\ ctxDone)
          ~> (startPc = "returned")
    /\ [](protocol \in {"udp", "tcp", "both"} /\ startPc = "returned" /\ ~ListenFailed
            => ctxDone /\ startRet = "nil")

\* Mode both: Stop closed both sockets under the two blocked paths, which
\* ended, and Start returned nil.
C3_Witness ==
    /\ protocol = "both"
    /\ udpSock = "closed" /\ tcpSock = "closed"
    /\ udpPc = "done" /\ tcpPc = "done"
    /\ startPc = "returned" /\ startRet = "nil"
    /\ stopRets = <<"nil">>

\* C4 as stated: every call of Stop after the first returns no error.
C4_LaterStopsSucceed ==
    \A i \in 2..Len(stopRets) : stopRets[i] = "nil"

\* C5 as stated: in mode both, a Start that returns nil on shutdown returns
\* only after the UDP path and the TCP path have ended.
C5_WaitsForBothPaths ==
    (protocol = "both" /\ startPc = "returned" /\ startRet = "nil")
        => (udpPc = "done" /\ tcpPc = "done")

\* C5 as amended: in mode both, Start returns nil only once shutdown has been
\* requested, and then without waiting for the two paths to end; it returns
\* an error only if that error is the failure of a path to bind its socket,
\* which the path reported; and without shutdown it returns only such an error.
C5_ReturnsOnCancelOrError ==
    (protocol = "both" /\ startPc = "returned")
        => \/ startRet = "nil" /\ ctxDone
           \/ /\ startRet = "UDP error: failed to start UDP listener"
              /\ udpPc = "done" /\ udpSock = "none"
           \/ /\ startRet = "TCP error: failed to start TCP listener"
              /\ tcpPc = "done" /\ tcpSock = "none"

\* Mode both: Start has returned nil while a path is still in its loop.
C5_Witness ==
    /\ protocol = "both"
    /\ startPc = "returned" /\ startRet = "nil"
    /\ udpPc \in {"loop", "read"} \/ tcpPc \in {"loop", "accept"}

\* --------------------------------------------------- claims on delivery

IsPrefix(a, b) == Len(a) <= Len(b) /\ a = Slice(b, 1, Len(a))

\* What the handler is due from the frames sent on a connection: the message
\* of each frame Parse accepts, in the order sent, up to the first frame the
\* reader rejects.
RECURSIVE Deliveries(_)
Deliveries(log) ==
    IF log = <<>> \/ ~log[1].good THEN <<>>
    ELSE (IF Parse(log[1].msg).err = "" THEN <<Parse(log[1].msg).msg>> ELSE <<>>)
         \o Deliveries(Tail(log))

\* The task of connection c has read all that was sent and waits for more.
CaughtUp(c) == connPc[c] \in {"loop", "read"} /\ connStream[c] = <<>>

\* C7: when ReadMessage fails on a connection (a bad length prefix, a message
\* above the maximum size, an I/O error), the step that ends the connection's
\* task changes nothing else: the collector is not cancelled, the sockets, the
\* accept loop, the UDP loop, Start and the other connections with their
\* tasks are as before; and whatever happens on the other connections, a task
\* that has read all its connection's frames has delivered every message due
\* from them.
C7_ConnectionsIndependent ==
    /\ [](\A d \in Conns : CaughtUp(d) => handled[d] = Deliveries(sentLog[d]))
    /\ [][\A c \in Conns :
             (connPc[c] = "read" /\ connPc'[c] = "closed")
             => /\ UNCHANGED <<ctxDone, sockVars, startVars, udpPc, tcpPc, udpQueue,
                               handled, connState>>
                /\ \A d \in Conns \ {c} :
                      connPc'[d] = connPc[d] /\ connStream'[d] = connStream[d]]_vars

\* A frame the reader rejects has closed the first connection; the collector
\* is not cancelled, the accept loop runs, and the handler is at a message of
\* the second connection.
C7_Witness ==
    /\ connPc[1] = "closed"
    /\ Len(sentLog[1]) = 1 /\ ~sentLog[1][1].good
    /\ ~ctxDone
    /\ tcpPc \in {"loop", "accept"}
    /\ connPc[2] = "handler"
    /\ handled[2] = Deliveries(sentLog[2])

\* C8: from every source (the UDP socket, each TCP connection) the handler
\* has been called once for each raw message read that Parse accepts, in the
\* order read and with the message Parse returns for it (the last one read
\* may be still on its way to the handler), and for no other message.
C8_HandlerOncePerAccepted ==
    \A s \in Sources :
        LET pending == PcOf(s) = "process" /\ Parse(curRaw[s]).err = ""
            n == Len(accepted[s]) - (IF pending THEN 1 ELSE 0)
        IN /\ Len(handled[s]) = n
           /\ \A i \in 1..n : handled[s][i] = Parse(accepted[s][i]).msg

\* Two datagrams were read, one that Parse rejects and one that it accepts;
\* the handler was called once.
C8_Witness ==
    /\ udpSent = 2
    /\ udpQueue = <<>>
    /\ udpPc = "read"
    /\ Len(handled[UDP]) = 1

\* C9: on every TCP connection the messages handed to the handler are, in the
\* order handed over, the first of the messages due from the frames sent on
\* that connection, in the order the frames were sent.
C9_OrderWithinConnection ==
    \A c \in Conns : IsPrefix(handled[c], Deliveries(sentLog[c]))

\* The handler received two different messages of one connection.
C9_Witness ==
    \E c \in Conns :
        /\ Len(handled[c]) = 2
        /\ handled[c][1] # handled[c][2]
        /\ handled[c] = Deliveries(sentLog[c])

\* C10: the step that drops a raw message Parse rejects takes the loop that
\* read it back to its head (the UDP loop runs on, the connection's task runs
\* on and its connection is not closed), calls no handler and changes neither
\* the sockets, the connections, Start nor the cancellation; and a message
\* Parse accepts that was sent on a connection right after one Parse rejects
\* is the last one handed to the handler once the task has read both.
C10_ParseFailureKeepsIngesting ==
    /\ [](\A c \in Conns :
            (/\ CaughtUp(c)
             /\ Len(sentLog[c]) >= 2
             /\ Parse(sentLog[c][Len(sentLog[c]) - 1].msg).err # ""
             /\ Parse(sentLog[c][Len(sentLog[c])].msg).err = "")
            => /\ handled[c] # <<>>
               /\ handled[c][Len(handled[c])] = Parse(sentLog[c][Len(sentLog[c])].msg).msg)
    /\ [][\A s \in Sources :
             (PcOf(s) = "process" /\ Parse(curRaw[s]).err # "" /\ PcOf(s)' # "process")
             => /\ PcOf(s)' = "loop"
                /\ UNCHANGED <<handled, ctxDone, sockVars, startVars, connState>>]_vars

\* A connection carried a message Parse rejects and then one it accepts; the
\* task is reading on, and the handler received the second.
C10_Witness ==
    \E c \in Conns :
        /\ Len(sentLog[c]) = 2
        /\ sentLog[c][1].good /\ sentLog[c][1].msg = MsgRejected
        /\ sentLog[c][2].good /\ sentLog[c][2].msg = MsgB
        /\ connPc[c] = "read"
        /\ connState[c] = "open"
        /\ handled[c] = <<Parse(MsgB).msg>>

\* ------------------------------------------- claims on handler errors

\* The handler's call for the last message of source s returns an error in
\* this step.
HandlerFails(s) ==
    /\ PcOf(s) = "handler"
    /\ Len(handlerRets'[s]) = Len(handlerRets[s]) + 1
    /\ handlerRets'[s][Len(handlerRets'[s])] = "error"

\* C11: the step in which the handler returns an error takes the loop that
\* read the message back to its head, calls no handler again and changes
\* neither the cancellation, the sockets, Start nor any connection or its
\* unread bytes; the handler is called once for each message handed over,
\* whatever it returned; and a task that has read all its connection's frames
\* after a handler error has delivered every message due from them, each once.
C11_HandlerErrorKeepsIngesting ==
    /\ [](\A s \in Sources :
            Len(handlerRets[s]) = Len(handled[s]) - (IF PcOf(s) = "handler" THEN 1 ELSE 0))
    /\ [](\A c \in Conns :
            (CaughtUp(c) /\ \E i \in 1..Len(handlerRets[c]) : handlerRets[c][i] = "error")
            => handled[c] = Deliveries(sentLog[c]))
    /\ [][\A s \in Sources :
             HandlerFails(s)
             => /\ PcOf(s)' = "loop"
                /\ UNCHANGED <<handled, accepted, ctxDone, sockVars, startVars, connState,
                               connStream, udpQueue>>]_vars

\* The handler failed on the first message of a connection and was then
\* called with the second; the connection is open and its task reads on.
C11_Witness ==
    \E c \in Conns :
        /\ handlerRets[c] = <<"error", "nil">>
        /\ Len(handled[c]) = 2
        /\ handled[c][1] # handled[c][2]
        /\ connPc[c] = "read"
        /\ connState[c] = "open"
        /\ ~ctxDone

\* ------------------------------------------- claims on the framing reader

\* The stream begins with a length prefix: one or more digits and a space.
HasLengthPrefix(stream) ==
    LET i == IndexByte(stream, SP)
    IN i > 1 /\ \A k \in 1..(i - 1) : IsDigit(stream[k])

\* The length the prefix declares, and the bytes that follow the prefix.
DeclaredLength(stream) == DigitsValue(Slice(stream, 1, IndexByte(stream, SP) - 1))

FrameBody(stream) == Slice(stream, IndexByte(stream, SP) + 1, Len(stream))

\* C12: with octet counting, on a stream that begins with a length prefix
\* declaring more than the reader's maximum size (8192 unless SetMaxSize
\* changed it), ReadMessage returns an error, whether or not the body has
\* arrived, and leaves every byte after the prefix unread.
C12_OversizedFrameRejected ==
    (/\ fnName = "ReadMessage"
     /\ fnPc = "returned"
     /\ fnIn.method = OctetCounting
     /\ HasLengthPrefix(fnIn.stream)
     /\ DeclaredLength(fnIn.stream) > fnIn.maxSize)
    => /\ fnOut.status = "err"
       /\ fnOut.err = "message length exceeds maximum"
       /\ fnOut.rest = FrameBody(fnIn.stream)

\* A frame declaring 8193 bytes reached a reader of the default maximum size
\* on a stream still open; ReadMessage returned and the body is unread.
C12_Witness ==
    /\ fnName = "ReadMessage"
    /\ fnPc = "returned"
    /\ fnIn.method = OctetCounting
    /\ fnIn.maxSize = DefaultMaxSize
    /\ fnIn.st = "open"
    /\ HasLengthPrefix(fnIn.stream)
    /\ DeclaredLength(fnIn.stream) = DefaultMaxSize + 1
    /\ Len(fnOut.rest) = MaxBytes

\* AutoDetectFraming returned a framing method and no error.
Detected == fnName = "AutoDetectFraming" /\ fnPc = "returned" /\ fnOut.status = "ok"

\* C13 as stated: AutoDetectFraming classifies a non-empty stream as
\* OctetCounting exactly when the stream begins with one or more decimal
\* digits immediately followed by a space, and as NonTransparent otherwise.
C13_DetectsAnyLengthPrefix ==
    (Detected /\ Len(fnIn.stream) > 0)
    => (fnOut.method = OctetCounting <=> HasLengthPrefix(fnIn.stream))

\* C13 as amended: AutoDetectFraming, when it returns no error, classifies a
\* non-empty stream as OctetCounting exactly when the bytes it peeks at, the
\* first 10 of the stream, begin with one or more decimal digits immediately
\* followed by a space (a prefix of one to nine digits), and as
\* NonTransparent otherwise.
C13_DetectsPrefixInPeek ==
    (Detected /\ Len(fnIn.stream) > 0)
    => /\ fnOut.method \in FramingMethod
       /\ fnOut.method = OctetCounting
             <=> (HasLengthPrefix(fnIn.stream) /\ IndexByte(fnIn.stream, SP) <= PeekSize)

\* A stream of nine digits, a space and more bytes was classified as
\* OctetCounting.
C13_Witness ==
    /\ Detected
    /\ IndexByte(fnIn.stream, SP) = PeekSize
    /\ Len(fnIn.stream) > PeekSize
    /\ HasLengthPrefix(fnIn.stream)
    /\ fnOut.method = OctetCounting

\* The bytes of a stream up to and including the first line feed, or all of
\* them when there is none.
FirstLine(stream) ==
    IF IndexByte(stream, LF) > 0 THEN Slice(stream, 1, IndexByte(stream, LF)) ELSE stream

\* A line without the CR, LF and NUL bytes at its end: the line up to its last
\* byte that is none of them.
Stripped(line) ==
    LET keep == {k \in 1..Len(line) : line[k] \notin {CR, LF, NUL}}
    IN IF keep = {} THEN <<>>
       ELSE Slice(line, 1, CHOOSE k \in keep : \A j \in keep : j <= k)

Produced ==
    /\ fnName \in {"Parse", "ParseRFC3164", "ParseRFC5424"}
    /\ fnPc = "returned"
    /\ fnOut.err = ""

\* The integer the priority field holds: the decimal number, with or without
\* a sign, between the '<' and the first '>'.
PriorityValue(raw) ==
    LET field == Slice(raw, 2, IndexByte(raw, ">") - 1)
    IN IF field[1] = "-" THEN 0 - DigitsValue(Tail(field))
       ELSE IF field[1] = "+" THEN DigitsValue(Tail(field))
       ELSE DigitsValue(field)

\* C15: every message Parse, ParseRFC3164 or ParseRFC5424 produces from an
\* input whose priority field holds the integer p has Priority() =
\* facility*8 + severity = p, with facility the quotient and severity the
\* remainder of p by 8 (those of Go's / and %, which for a negative p are
\* the negated quotient and remainder of -p).
C15_PriorityDecomposed ==
    Produced
    => LET p == PriorityValue(fnIn.raw)
           q == IF p >= 0 THEN p \div 8 ELSE 0 - ((0 - p) \div 8)
           r == IF p >= 0 THEN p % 8 ELSE 0 - ((0 - p) % 8)
       IN /\ fnOut.msg.Facility = q
          /\ fnOut.msg.Severity = r
          /\ fnOut.msg.Facility * 8 + fnOut.msg.Severity = p

\* Parse produced a message of facility 23 and severity 7 from an input of
\* priority 191.
C15_Witness ==
    /\ Produced
    /\ fnName = "Parse"
    /\ PriorityValue(fnIn.raw) = 191
    /\ fnOut.msg.Facility = 23
    /\ fnOut.msg.Severity = 7

\* C16 as stated: every message the parser produces, in either dialect, has
\* its severity in 0..7.
C16_SeverityInRange == Produced => fnOut.msg.Severity \in 0..7

\* The offset from UTC, in minutes, of the zone a timestamp is in, on a
\* machine whose zone is local minutes east of UTC.
ZoneOffset(ts, local) ==
    IF ts.Location = LocUTC THEN 0
    ELSE IF ts.Location = LocLocal THEN local
    ELSE ts.Location[2]

\* C17 as stated: every message the parser produces carries a timestamp in
\* UTC, whichever path set it: an RFC 3164 timestamp, the RFC 3164 fall-back
\* to the current time, an RFC 5424 timestamp with an offset, or the RFC 5424
\* "-" (the current time).
C17_TimestampInUTC ==
    Produced => ZoneOffset(fnOut.msg.Timestamp, fnIn.local) = 0

\* The seventh field of an RFC 5424 message: what follows the sixth space
\* after the priority bracket.
SeventhField(raw) ==
    SplitN(TrimSpace(Slice(raw, IndexByte(raw, ">") + 1, Len(raw))), 7)[7]

\* The length of the structured-data element at the head of s: from its '['
\* to the first ']' that no backslash escapes; 0 when s begins with no
\* element, or with one that holds a '[' of its own.
RECURSIVE ElementEnd(_, _, _)
ElementEnd(s, i, escaped) ==
    IF i > Len(s) THEN 0
    ELSE IF escaped THEN ElementEnd(s, i + 1, FALSE)
    ELSE IF s[i] = "\\" THEN ElementEnd(s, i + 1, TRUE)
    ELSE IF s[i] = "]" THEN i
    ELSE IF s[i] = "[" THEN 0
    ELSE ElementEnd(s, i + 1, FALSE)

\* What follows the consecutive structured-data elements at the head of s.
RECURSIVE AfterElements(_)
AfterElements(s) ==
    IF Len(s) > 0 /\ s[1] = "[" /\ ElementEnd(s, 2, FALSE) > 0
    THEN AfterElements(Slice(s, ElementEnd(s, 2, FALSE) + 1, Len(s)))
    ELSE s

\* The seventh field begins with one or more consecutive structured-data
\* elements, after which comes text that begins no further element.
ElementsThenText(s) ==
    /\ AfterElements(s) # s
    /\ AfterElements(s) # <<>>
    /\ AfterElements(s)[1] # "["

\* C18 as stated: the message ParseRFC5424 produces from an input whose
\* seventh field begins with one or more consecutive structured-data elements
\* followed by text is that text, trimmed: the text after the last element.
C18_MessageAfterLastElement ==
    (/\ Produced
     /\ fnName = "ParseRFC5424"
     /\ ElementsThenText(SeventhField(fnIn.raw)))
    => fnOut.msg.Message = TrimSpace(AfterElements(SeventhField(fnIn.raw)))

\* The input begins with no priority bracket: it is empty, its first byte is
\* not '<', or it holds no '>'.
NoPriorityBracket(raw) ==
    \/ raw = <<>>
    \/ raw[1] # "<"
    \/ \A i \in 1..Len(raw) : raw[i] # ">"

\* C19: Parse returns an error and no message for the empty input and for
\* every input that does not begin with a '<' ... '>' priority bracket.
C19_NoBracketIsError ==
    (/\ fnName = "Parse"
     /\ fnPc = "returned"
     /\ NoPriorityBracket(fnIn.raw))
    => /\ fnOut.err # ""
       /\ fnOut.msg = NewMessage(<<>>)

\* Parse has returned from a non-empty input that holds a '>' but does not
\* begin with '<'.
C19_Witness ==
    /\ fnName = "Parse"
    /\ fnPc = "returned"
    /\ fnIn.raw # <<>>
    /\ fnIn.raw[1] # "<"
    /\ \E i \in 1..Len(fnIn.raw) : fnIn.raw[i] = ">"
    /\ fnOut.err # ""

\* The input begins with a priority bracket, '<', one or more decimal digits
\* (the non-negative integer the priority must be) and '>', and what comes
\* right after the '>' is a bare integer followed by a white space.
VersionFollowsBracket(raw) ==
    LET close == IndexByte(raw, ">")
        after == Slice(raw, close + 1, Len(raw))
        version == RunLength(after, DigitSet)
    IN /\ close >= 3
       /\ raw[1] = "<"
       /\ \A i \in 2..(close - 1) : raw[i] \in DigitSet
       /\ version >= 1
       /\ Len(after) > version
       /\ after[version + 1] \in WhiteSpace

C21_RawKeptAndHandedOver ==
    \A s \in Sources :
        \A i \in 1..Len(handled[s]) :
            /\ i <= Len(accepted[s])
            /\ handled[s][i].Raw = accepted[s][i]
            /\ handled[s][i] = Parsed[accepted[s][i]].msg

\* The handler was called with the message of a datagram that ends with a
\* white space.
C21_Witness ==
    /\ Len(handled[UDP]) > 0
    /\ accepted[UDP][1] = MsgPadded
    /\ handled[UDP][1].Message = <<"x">>

\* C22 as stated: in every message the parser produces, in either dialect,
\* the fields PID and ProcID hold the same value.
C22_PidMirrorsProcID ==
    Produced => fnOut.msg.PID = fnOut.msg.ProcID

\* ------------------------------------------------ claims on the sessions

\* The record of the CreateSession call that returned token t.
IssueOf(t) == CHOOSE i \in issued : i.token = t

\* C23: ValidateSession accepts a token only if CreateSession returned it for
\* an existing user, handleLogout has not deleted it, and no more than 24
\* hours have passed since it was returned; and the sessions a call of
\* CleanupExpiredSessions removes were returned more than 24 hours before and
\* would validate no more, while every other session stays as it is.
C23_SessionsExpire ==
    /\ [](\A t \in Cookies :
            ValidateSession(t).valid
            => /\ \E i \in issued : i.token = t
               /\ \E u \in users : u.Username = IssueOf(t).user
               /\ ValidateSession(t).username = IssueOf(t).user
               /\ t \notin deleted
               /\ now - IssueOf(t).at <= SessionTTL)
    /\ [][authCall'.op = "CleanupExpiredSessions"
          => /\ sessions' \subseteq sessions
             /\ \A s \in sessions \ sessions' :
                   /\ now - IssueOf(s.Token).at > SessionTTL
                   /\ ~ValidateSession(s.Token).valid
             /\ \A s \in sessions : ValidateSession(s.Token).valid => s \in sessions']_vars

\* ValidateSession has just accepted a token returned exactly 24 hours
\* before, after CleanupExpiredSessions removed the session of an older one.
C23_Witness ==
    /\ authCall.op = "ValidateSession"
    /\ authCall.at = now
    /\ authCall.ret.valid
    /\ now - IssueOf(authCall.arg).at = SessionTTL
    /\ \E i \in issued :
          /\ i.token \notin deleted
          /\ now - i.at > SessionTTL
          /\ ~\E s \in sessions : s.Token = i.token

\* C24: a step of handleLogout that passes a session token to DeleteSession
\* removes the session of that token and leaves the other sessions and the
\* users as they are; and ValidateSession rejects, in every later state,
\* every token handleLogout has processed.
C24_LogoutInvalidates ==
    /\ [](\A t \in deleted : ~ValidateSession(t).valid)
    /\ [][(authCall'.op = "handleLogout" /\ deleted' # deleted)
          => /\ users' = users
             /\ sessions' = {s \in sessions : s.Token \notin deleted' \ deleted}]_vars

\* handleLogout has processed the token of one of two sessions that were
\* valid; ValidateSession has just rejected it, and the other session is
\* still there.
C24_Witness ==
    /\ authCall.op = "ValidateSession"
    /\ authCall.at = now
    /\ authCall.arg \in deleted
    /\ ~authCall.ret.valid
    /\ \E i \in issued : i.token = authCall.arg
    /\ now - IssueOf(authCall.arg).at <= SessionTTL
    /\ \E s \in sessions : s.Token # authCall.arg /\ ValidateSession(s.Token).valid

\* The request carries the API token of a user as "Bearer <token>".
BearerOfUser(r) ==
    \E u \in users : r.Authorization = <<"Bearer", SP, u.APIToken>>

\* The request carries "Basic <base64 of username:password>" of a user: of
\* admin:password123 or of user:pass456.
BasicOfUser(r) ==
    \/ /\ r.Authorization = <<"Basic", SP, "YWRtaW46cGFzc3dvcmQxMjM=">>
       /\ \E u \in users : u.Username = "admin" /\ u.PasswordHash = Hash(<<"password123">>)
    \/ /\ r.Authorization = <<"Basic", SP, "dXNlcjpwYXNzNDU2">>
       /\ \E u \in users : u.Username = "user" /\ u.PasswordHash = Hash(<<"pass456">>)

\* The request carries the cookie of a session that validates now: one
\* CreateSession returned no more than 24 hours ago and handleLogout has not
\* deleted.
SessionOfUser(r) ==
    \E i \in issued :
        /\ r.cookie = i.token
        /\ i.token \notin deleted
        /\ now - i.at <= SessionTTL

\* C25: with authentication enabled, the handler Middleware returns calls the
\* protected handler for a request exactly if the request carries the API
\* token of a user as Bearer token, the credentials of a user as Basic
\* credentials, or the cookie of a session that validates, and answers every
\* other request with 401; with authentication disabled it calls the
\* protected handler for every request.
C25_MiddlewareGuards ==
    \A r \in Requests :
        IF enabled
        THEN /\ ServeHTTP(r).next <=> (BearerOfUser(r) \/ BasicOfUser(r) \/ SessionOfUser(r))
             /\ ~ServeHTTP(r).next => ServeHTTP(r).status = "401"
        ELSE ServeHTTP(r).next

\* With authentication enabled the middleware has just passed a request
\* whose session cookie validates and which carries a Bearer token of no user.
C25_Witness ==
    /\ enabled
    /\ authCall.op = "Middleware"
    /\ authCall.at = now
    /\ authCall.arg.Authorization = <<"Bearer", SP, "forged">>
    /\ authCall.arg.cookie \in {s.Token : s \in sessions}
    /\ authCall.ret.next
    /\ authCall.ret.username # ""

\* ------------------------------------------------- claims on retention

\* C26 as stated: a call DeleteOlderThan(d) that returns no error leaves, of
\* the messages stored before it, exactly those whose timestamp is at or
\* after now - d, in their order, and returns the number of the others; in
\* MemoryStorage and in SQLiteStorage.
C26_DeletesOlderOnly ==
    (storeCall.op = "DeleteOlderThan" /\ storeCall.ret.err = "")
    => /\ storeCall.ret.after
             = SelectSeq(storeCall.ret.before,
                         LAMBDA msg : msg.Timestamp >= storeCall.at - storeCall.arg)
       /\ storeCall.ret.deleted = Len(storeCall.ret.before) - Len(storeCall.ret.after)
       /\ messages = storeCall.ret.after

\* ------------------------------------------------ claims on the shutdown

\* Stop has returned at least once and no call of it is running.
StopReturned == Len(stopRets) > 0 /\ stopPc = "idle"

\* C27 as stated: once Stop has returned, every per-connection task that is
\* running, blocked in a read of a silent peer or not, eventually returns and
\* closes its connection.
C27_StopReleasesBlockedTasks ==
    \A c \in Conns :
        (StopReturned /\ connPc[c] # "none") ~> (connPc[c] = "closed")

\* C28 as stated: once Stop and Start have both returned, neither the UDP
\* socket nor the TCP listener the collector bound is open.
C28_NoSocketLeftOpen ==
    (StopReturned /\ startPc = "returned")
    => (udpSock # "open" /\ tcpSock # "open")

\* Stop has returned, the task of connection c waits for bytes with every
\* byte that arrived consumed, and the handler was called n times for c: what
\* the handler is called with from then on arrived after Stop returned.
QuietAfterStop(c, n) ==
    /\ StopReturned
    /\ connPc[c] \in {"loop", "read"}
    /\ connStream[c] = <<>>
    /\ Len(handled[c]) = n

\* C29 as stated: no message that arrives after Stop has returned is handed
\* to the handler: no datagram, and no frame sent on a connection accepted
\* before Stop.
C29_NothingDeliveredAfterStop ==
    /\ \A c \in Conns, n \in 0..MaxFrames :
          [](QuietAfterStop(c, n) => [](Len(handled[c]) <= n))
    /\ \A n \in 0..MaxDatagrams :
          []((StopReturned /\ udpQueue = <<>> /\ udpPc \in {"loop", "read"}
              /\ Len(handled[UDP]) = n)
             => [](Len(handled[UDP]) <= n))

\* C30 as stated: with Config.FramingMethod left unspecified (its zero value,
\* OctetCounting), the reader of a connection whose stream begins with "<"
\* reads with non-transparent framing.
C30_UnspecifiedFramingDetected ==
    \A c \in Conns :
        (/\ framingMethod = OctetCounting
         /\ connPc[c] # "none"
         /\ Len(sentLog[c]) > 0
         /\ sentLog[c][1].bytes[1] = "<")
        => reader(c).method = NonTransparent

\* ------------------------------------------------ claims on the Reader

\* A call of ReadMessage under a framing method has returned.
ReadReturned(method) ==
    /\ fnName = "ReadMessage"
    /\ fnPc = "returned"
    /\ fnIn.method = method

\* C31 as stated: under both framing methods, a ReadMessage call on a stream
\* that has ended with every message returned (no byte is left) returns an
\* end-of-stream error, and no message.
C31_EndOfStreamIsError ==
    \A method \in FramingMethod :
        (ReadReturned(method) /\ fnIn.stream = <<>> /\ fnIn.st = "eof")
        => fnOut.status = "err"

\* The length prefix of a stream: the bytes before the first space, or the
\* whole stream when it has no space.
LengthPrefix(stream) ==
    IF IndexByte(stream, SP) = 0 THEN stream
    ELSE Slice(stream, 1, IndexByte(stream, SP) - 1)

\* The bytes that follow the first space of a stream.
AfterPrefix(stream) ==
    IF IndexByte(stream, SP) = 0 THEN <<>>
    ELSE Slice(stream, IndexByte(stream, SP) + 1, Len(stream))

\* What octet counting is due on a stream whose length prefix holds the
\* number length: an error when the stream has no space, when the prefix is
\* no number, when the number is not positive or is above the limit, and
\* when fewer bytes follow the space; and otherwise that many bytes.
OctetCountingDue(stream, length, limit) ==
    IF \/ IndexByte(stream, SP) = 0
       \/ ~length.ok
       \/ length.val <= 0
       \/ length.val > limit
       \/ Len(AfterPrefix(stream)) < length.val
    THEN [status |-> "err", msg |-> <<>>]
    ELSE [status |-> "ok", msg |-> Slice(AfterPrefix(stream), 1, length.val)]

\* A limit no declared length of the model exceeds.
NoLimit == DefaultMaxSize + 1

\* C32 as stated: in octet-counting mode ReadMessage returns an error and no
\* message when the length prefix is no decimal number, when the declared
\* length is zero or negative, and when the stream ends before that many
\* bytes; and otherwise the declared number of bytes after the space.
C32_OctetCountingAsStated ==
    ReadReturned(OctetCounting)
    => LET due == OctetCountingDue(fnIn.stream, Atoi(LengthPrefix(fnIn.stream)), NoLimit)
       IN fnOut.status = due.status /\ fnOut.msg = due.msg

\* C32: in octet-counting mode ReadMessage returns an error and no message
\* when the length prefix, with the white space around it trimmed, is no
\* decimal number, when the declared length is zero or negative or exceeds
\* the reader's maximum size, and when the stream ends before that many
\* bytes; and otherwise the declared number of bytes after the space.
C32_OctetCountingRead ==
    ReadReturned(OctetCounting)
    => LET due == OctetCountingDue(fnIn.stream, Atoi(TrimSpace(LengthPrefix(fnIn.stream))),
                                   fnIn.maxSize)
       IN fnOut.status = due.status /\ fnOut.msg = due.msg

\* ReadMessage has returned the three bytes that follow a length prefix
\* written after a line feed.
C32_Witness ==
    /\ ReadReturned(OctetCounting)
    /\ LengthPrefix(fnIn.stream) = <<LF, "3">>
    /\ fnOut.status = "ok"
    /\ Len(fnOut.msg) = 3
    /\ fnOut.msg = AfterPrefix(fnIn.stream)

\* The stream with each NUL replaced by a line feed.
NulAsLF(stream) == [i \in 1..Len(stream) |-> IF stream[i] = NUL THEN LF ELSE stream[i]]

\* C33 as stated: in non-transparent mode a NUL delimits messages as a line
\* feed does: on a stream whose messages end with NUL, ReadMessage returns
\* what it returns on the stream with a line feed in place of each NUL, one
\* message per call.
C33_NulDelimits ==
    (/\ ReadReturned(NonTransparent)
     /\ IndexByte(fnIn.stream, NUL) > 0
     /\ IndexByte(fnIn.stream, LF) = 0)
    => LET asLF == ReadMessage(NonTransparent, NulAsLF(fnIn.stream), fnIn.st, fnIn.maxSize)
       IN /\ fnOut.status = asLF.status
          /\ fnOut.msg = asLF.msg
          /\ Len(fnOut.rest) = Len(asLF.rest)

\* ------------------------------------------------ claims on the priority

\* The text between the '<' and the first '>' of an input that begins with a
\* priority bracket.
PriorityText(raw) == Slice(raw, 2, IndexByte(raw, ">") - 1)

\* C34 as stated: Parse, ParseRFC3164 and ParseRFC5424 return an error, and
\* no message, for every input whose text between '<' and the first '>' is
\* empty, holds a byte that is no digit, or carries a sign.
C34_BadPriorityRejected ==
    (/\ fnName \in {"Parse", "ParseRFC3164", "ParseRFC5424"}
     /\ fnPc = "returned"
     /\ ~NoPriorityBracket(fnIn.raw)
     /\ \/ PriorityText(fnIn.raw) = <<>>
        \/ ~AllDigits(PriorityText(fnIn.raw)))
    => fnOut.err # ""

\* ------------------------------------------------ claims on the timestamp

\* What follows the priority bracket of an input, trimmed.
AfterPriority(raw) == TrimSpace(Slice(raw, IndexByte(raw, ">") + 1, Len(raw)))

\* The 15 bytes ParseRFC3164 takes for the timestamp.
TimestampField(raw) == Slice(AfterPriority(raw), 1, 15)

\* One of the two timestamp formats matches the 15 bytes.
ValidTimestamp(ts) == parseTimestamp(ts, FALSE).ok \/ parseTimestamp(ts, TRUE).ok

\* The input with other 15 bytes in the place of its timestamp.
WithTimestamp(raw, ts) ==
    Slice(raw, 1, IndexByte(raw, ">")) \o ts
        \o Slice(AfterPriority(raw), 16, Len(AfterPriority(raw)))

OctEleven == <<"O", "c", "t", SP, "1", "1", SP, "2", "2", ":", "1", "4", ":", "1", "5">>

\* A call of ParseRFC3164 at a known time has returned, on an input with at
\* least 16 bytes after its priority.
ParsedAt ==
    /\ fnName = "ParseRFC3164"
    /\ fnPc = "returned"
    /\ Len(AfterPriority(fnIn.raw)) >= 16

\* C35: when the 15 bytes after the priority match neither timestamp format,
\* ParseRFC3164 fails or succeeds as it does on the same input with a valid
\* timestamp in their place, with the same hostname, tag, PID and message,
\* and the timestamp of the message is the current time.
C35_TimestampNeverFails ==
    (ParsedAt /\ ~ValidTimestamp(TimestampField(fnIn.raw)))
    => LET valid == ParseRFC3164At(WithTimestamp(fnIn.raw, OctEleven),
                                   Now(fnIn.unix, fnIn.local))
       IN /\ fnOut.err = valid.err
          /\ fnOut.err = ""
             => /\ fnOut.msg.Timestamp = Now(fnIn.unix, fnIn.local)
                /\ fnOut.msg.Hostname = valid.msg.Hostname
                /\ fnOut.msg.Tag = valid.msg.Tag
                /\ fnOut.msg.PID = valid.msg.PID
                /\ fnOut.msg.Message = valid.msg.Message

\* ParseRFC3164 has produced a message, with its hostname and tag and the
\* time of the clock, from an input dated Feb 30.
C35_Witness ==
    /\ ParsedAt
    /\ Slice(TimestampField(fnIn.raw), 1, 6) = <<"F", "e", "b", SP, "3", "0">>
    /\ fnOut.err = ""
    /\ fnOut.msg.Timestamp.Unix = fnIn.unix
    /\ fnOut.msg.Hostname = <<"h">>
    /\ fnOut.msg.Tag = <<"t">>

\* The Timestamp of the message produced, as the machine that parsed it
\* presents it.
LocalClock == Clock(Time(fnOut.msg.Timestamp.Unix, fnOut.msg.Timestamp.Nsec,
                         LocLocal, fnIn.local))

\* The year of the clock, in the zone of the machine.
ThisYear == Clock(Now(fnIn.unix, fnIn.local)).year

\* The fields written in the timestamp of the input.
Written == parseRFC3164Time(TimestampField(fnIn.raw))

\* The instant the written fields name in the current year, in the zone of
\* the machine.
ThisYearInstant ==
    Date(ThisYear, Written.month, Written.day, Written.hour, Written.minute,
         Written.second, Written.nsec, LocLocal, fnIn.local)

\* 24 hours after the time of parsing.
Tomorrow == Add(Now(fnIn.unix, fnIn.local), 24 * 3600)

\* ParseRFC3164 has produced a message from an input with a valid timestamp.
ParsedValid ==
    /\ ParsedAt
    /\ ValidTimestamp(TimestampField(fnIn.raw))
    /\ fnOut.err = ""

RECURSIVE SpaceAt(_, _)
SpaceAt(s, k) ==
    IF k = 0 THEN 0
    ELSE LET from == SpaceAt(s, k - 1)
             later == {i \in (from + 1)..Len(s) : s[i] = SP}
         IN IF later = {} THEN Len(s) + 1
            ELSE CHOOSE i \in later : \A j \in later : i <= j

\* The k-th of the fields a space separates, for k < 7.
FieldAt(s, k) == Slice(s, SpaceAt(s, k - 1) + 1, SpaceAt(s, k) - 1)

\* The attribute a field leaves: none for "-", and else the field.
Attribute(field) == IF field = <<"-">> THEN <<>> ELSE field

\* A call of ParseRFC5424 has returned, on an input with a priority.
Parsed5424 ==
    /\ fnName = "ParseRFC5424"
    /\ fnPc = "returned"
    /\ ~NoPriorityBracket(fnIn.raw)
    /\ Atoi(PriorityText(fnIn.raw)).ok

\* C38: ParseRFC5424 fails when fewer than seven fields (six spaces) follow
\* the priority; and on success the hostname, app name, proc ID and message ID
\* are the third to sixth fields, each empty when its field is "-" and the
\* field itself otherwise, with Tag = AppName and PID = ProcID.
C38_FieldsStored ==
    Parsed5424
    => LET rest == AfterPriority(fnIn.raw)
       IN /\ SpaceAt(rest, 6) > Len(rest) => fnOut.err # ""
          /\ fnOut.err = ""
             => /\ fnOut.msg.Hostname = Attribute(FieldAt(rest, 3))
                /\ fnOut.msg.AppName = Attribute(FieldAt(rest, 4))
                /\ fnOut.msg.ProcID = Attribute(FieldAt(rest, 5))
                /\ fnOut.msg.MsgID = Attribute(FieldAt(rest, 6))
                /\ fnOut.msg.Tag = fnOut.msg.AppName
                /\ fnOut.msg.PID = fnOut.msg.ProcID

\* ParseRFC5424 has produced a message from an input whose PROCID is "77" and
\* whose MSGID is "-".
C38_Witness ==
    /\ Parsed5424
    /\ fnOut.err = ""
    /\ FieldAt(AfterPriority(fnIn.raw), 5) = <<"7", "7">>
    /\ FieldAt(AfterPriority(fnIn.raw), 6) = <<"-">>
    /\ fnOut.msg.PID = <<"7", "7">>
    /\ fnOut.msg.MsgID = <<>>

\* The byte s[i] follows a backslash that escapes it: a backslash that is
\* not itself escaped.
RECURSIVE IsEscaped(_, _)
IsEscaped(s, i) == i > 1 /\ s[i - 1] = "\\" /\ ~IsEscaped(s, i - 1)

\* The bracket depth after the first i bytes of s: the '[' less the ']'
\* among them, the escaped ones left out.
BracketDepth(s, i) ==
    Cardinality({j \in 1..i : s[j] = "[" /\ ~IsEscaped(s, j)})
    - Cardinality({j \in 1..i : s[j] = "]" /\ ~IsEscaped(s, j)})

\* The places of s where the depth is back to zero.
BalancedEnds(s) == {i \in 1..Len(s) : BracketDepth(s, i) = 0}

\* C39: for a seventh field that starts with '[', with the depth counted
\* over the brackets no backslash escapes: the depth is at least one up to
\* the first place where it is zero, the message is what follows that place,
\* trimmed, and when there is no such place the message is the whole field
\* and no error is returned.
C39_EscapedBracketsSkipped ==
    (/\ Parsed5424
     /\ SpaceAt(AfterPriority(fnIn.raw), 6) <= Len(AfterPriority(fnIn.raw))
     /\ HasPrefix(SeventhField(fnIn.raw), <<"[">>)
     /\ fnOut.err # "invalid version field"
     /\ fnOut.err # "invalid timestamp")
    => LET field == SeventhField(fnIn.raw)
           ends == BalancedEnds(field)
           first == CHOOSE i \in ends : \A j \in ends : i <= j
       IN /\ fnOut.err = ""
          /\ IF ends = {}
             THEN /\ fnOut.msg.Message = field
                  /\ \A i \in 1..Len(field) : BracketDepth(field, i) >= 1
             ELSE /\ fnOut.msg.Message = TrimSpace(Slice(field, first + 1, Len(field)))
                  /\ \A i \in 1..(first - 1) : BracketDepth(field, i) >= 1

\* ParseRFC5424 has passed over an escaped ']' inside an element and taken
\* the text after the element for the message.
C39_Witness ==
    /\ Parsed5424
    /\ fnOut.err = ""
    /\ HasPrefix(SeventhField(fnIn.raw), <<"[", "a", SP, "b", "=", "\"", "\\", "]", "\"", "]">>)
    /\ Len(SeventhField(fnIn.raw)) = 11
    /\ fnOut.msg.Message = <<"m">>

\* ---------------------------------------- claims on concurrent handler calls

\* The source s is inside a call of the handler.
InHandler(s) == PcOf(s) = "handler"

\* The source s is in processMessage with a message Parse accepts, so that
\* its next step is the call of the handler.
AboutToCallHandler(s) == PcOf(s) = "process" /\ Parsed[curRaw[s]].err = ""

\* C40: nothing serializes the calls of the handler: a source that is about
\* to call it can do so while another source, a TCP connection or the UDP
\* loop, is inside a call of its own.
C40_HandlersNotSerialized ==
    \A s, t \in Sources :
        (s # t /\ InHandler(t) /\ AboutToCallHandler(s))
        => ENABLED processMessage(s)

\* Two TCP connections are inside a call of the handler at the same time.
C40_Witness ==
    /\ protocol = "tcp"
    /\ InHandler(1)
    /\ InHandler(2)

====
